---- MODULE Spec2Model ----
(***************************************************************************)
(* A model of the protobuf3 encoder of mistsys/protobuf: the schema        *)
(* compiler and its cache (properties.go) and the wire encoder             *)
(* (encode.go).                                                            *)
(*                                                                         *)
(* A uint64 is held as its ten base-128 digits, least significant first    *)
(* (the tenth digit holds bit 63 alone), so that 64-bit values stay exact. *)
(* Signed field values are small integers and are converted to uint64 the  *)
(* way the Go conversions do (sign extension, truncation).                 *)
(***************************************************************************)
EXTENDS Integers, Sequences, FiniteSets, TLC

\* ------------------------------------------------------------------ uint64

Pow2(n) == <<1, 2, 4, 8, 16, 32, 64, 128, 256>>[n + 1]

\* 128^k for the digits an integer below 2^31 has.
Pow128(k) == <<1, 128, 16384, 2097152, 268435456>>[k + 1]

\* uint64(n) of a non-negative integer below 2^31.
FromNat(n) == [k \in 1..10 |-> IF k <= 5 THEN (n \div Pow128(k - 1)) % 128 ELSE 0]

\* uint64(int64(x)): a negative x is sign extended (two's complement).
FromInt(x) ==
    IF x >= 0 THEN FromNat(x)
    ELSE LET d == FromNat(-x - 1)
         IN  [k \in 1..10 |-> IF k = 10 THEN 1 - d[k] ELSE 127 - d[k]]

\* Bit i (0..63) of x.
Bit(x, i) == IF i > 63 THEN 0 ELSE (x[(i \div 7) + 1] \div Pow2(i % 7)) % 2

\* The uint64 whose bit i is f(i).
FromBits(f(_)) ==
    [k \in 1..10 |->
        f(7 * (k - 1)) + 2 * f(7 * (k - 1) + 1) + 4 * f(7 * (k - 1) + 2)
        + 8 * f(7 * (k - 1) + 3) + 16 * f(7 * (k - 1) + 4)
        + 32 * f(7 * (k - 1) + 5) + 64 * f(7 * (k - 1) + 6)]

\* uint32(x), widened back to uint64.
Trunc32(x) == [k \in 1..10 |-> IF k < 5 THEN x[k] ELSE IF k = 5 THEN x[k] % 16 ELSE 0]

\* x>>32 == 0
Hi32Zero(x) == x[5] < 16 /\ \A k \in 6..10 : x[k] = 0

\* x >> 7
Shr7(x) == [k \in 1..10 |-> IF k < 10 THEN x[k + 1] ELSE 0]

\* uint8(x)
U8(x) == x[1] + 128 * (x[2] % 2)

\* b | 0x80 of a byte b
Or80(b) == (b % 128) + 128

\* x >= 1<<7
Ge128(x) == \E k \in 2..10 : x[k] # 0

\* x < 1<<14
Lt14(x) == \A k \in 3..10 : x[k] = 0

\* uint8(x >> (8*k))
ByteAt(x, k) ==
    Bit(x, 8 * k) + 2 * Bit(x, 8 * k + 1) + 4 * Bit(x, 8 * k + 2) + 8 * Bit(x, 8 * k + 3)
    + 16 * Bit(x, 8 * k + 4) + 32 * Bit(x, 8 * k + 5) + 64 * Bit(x, 8 * k + 6)
    + 128 * Bit(x, 8 * k + 7)

Xor(a, b) == (a + b) % 2

\* The ten digits of x, each worked out once.
Digits(x) == <<x[1], x[2], x[3], x[4], x[5], x[6], x[7], x[8], x[9], x[10]>>

\* The carry into digit k of a + b.
RECURSIVE Carry(_, _, _)
Carry(a, b, k) == IF k = 1 THEN 0 ELSE (a[k - 1] + b[k - 1] + Carry(a, b, k - 1)) \div 128

\* a + b, ^a, -a and a - b of 64 bits (wrapping around).
Add64(a, b) ==
    Digits([k \in 1..10 |-> (a[k] + b[k] + Carry(a, b, k)) % (IF k = 10 THEN 2 ELSE 128)])

Not64(x) == Digits([k \in 1..10 |-> IF k = 10 THEN 1 - (x[k] % 2) ELSE 127 - x[k]])

\* The borrow from digit k of a - b.
RECURSIVE Borrow(_, _, _)
Borrow(a, b, k) ==
    IF k = 1 THEN 0 ELSE IF a[k - 1] - b[k - 1] - Borrow(a, b, k - 1) < 0 THEN 1 ELSE 0

Sub64(a, b) ==
    Digits([k \in 1..10 |->
        (a[k] + 128 - b[k] - Borrow(a, b, k)) % (IF k = 10 THEN 2 ELSE 128)])

Neg64(a) == Sub64(FromNat(0), a)

\* f(x), x being worked out before f is entered: the code's statements run
\* in order, each on the values the ones before it left.
Then(x, f(_)) == CHOOSE y \in {f(v) : v \in {x}} : TRUE

\* The carry into digit k of a * 1000.
RECURSIVE MulCarry(_, _)
MulCarry(a, k) == IF k = 1 THEN 0 ELSE (a[k - 1] * 1000 + MulCarry(a, k - 1)) \div 128

\* a * 1000 of 64 bits (wrapping around): long multiplication, a digit at a time.
Mul1000(a) ==
    Digits([k \in 1..10 |-> (a[k] * 1000 + MulCarry(a, k)) % (IF k = 10 THEN 2 ELSE 128)])

\* a * 1000_000_000 of 64 bits.
MulBillion(a) == Mul1000(Mul1000(Mul1000(a)))

\* The remainder of the digits k..10 of the unsigned a divided by c (0 < c < 2^24).
RECURSIVE URem(_, _, _)
URem(a, c, k) == IF k > 10 THEN 0 ELSE (a[k] + 128 * URem(a, c, k + 1)) % c

\* The unsigned a / c: long division, a digit at a time.
UQuo(a, c) == Digits([k \in 1..10 |-> (a[k] + 128 * URem(a, c, k + 1)) \div c])

\* The unsigned a / 1000_000_000.
UQuoBillion(a) == UQuo(UQuo(UQuo(a, 1000), 1000), 1000)

\* int64(a) < 0
Neg(a) == a[10] = 1

\* QuoBillion rounding toward minus infinity.
QuoBillion_floor(a) ==
    IF Neg(a)
    THEN Then(Neg64(UQuoBillion(Neg64(a))), LAMBDA q :
            IF MulBillion(q) = a THEN q ELSE Sub64(q, FromNat(1)))
    ELSE UQuoBillion(a)

\* The int64 a / 1000_000_000 as Go divides: the quotient is truncated toward zero.
QuoBillion(a) == IF Neg(a) THEN Neg64(UQuoBillion(Neg64(a))) ELSE UQuoBillion(a)

\* --------------------------------------------------- primitive wire writers

\* The loops of EncodeVarint: for x >= 1<<7 { append(uint8(x)|0x80); x >>= 7 }; append(uint8(x))
RECURSIVE VarintLoop(_, _)
VarintLoop(buf, x) ==
    IF Ge128(x) THEN VarintLoop(Append(buf, Or80(U8(x))), Shr7(x))
    ELSE Append(buf, U8(x))

EncodeVarint(buf, x) ==
    LET x32 == Trunc32(x)
    IN  IF Hi32Zero(x)
        THEN IF ~Ge128(x32) THEN Append(buf, U8(x32))
             ELSE IF Lt14(x) THEN buf \o <<Or80(U8(x32)), U8(Shr7(x32))>>
             ELSE VarintLoop(buf \o <<Or80(U8(x32)), Or80(U8(Shr7(x32)))>>,
                             Shr7(Shr7(x32)))
        ELSE VarintLoop(buf \o <<Or80(U8(x32)), Or80(U8(Shr7(x32))),
                                 Or80(U8(Shr7(Shr7(x32)))),
                                 Or80(U8(Shr7(Shr7(Shr7(x32)))))>>,
                        Shr7(Shr7(Shr7(Shr7(x)))))

\* for { n++; x >>= 7; if x == 0 { break } }
RECURSIVE SizeLoop(_, _)
SizeLoop(n, x) == IF Shr7(x) = FromNat(0) THEN n + 1 ELSE SizeLoop(n + 1, Shr7(x))

\* SizeVarint with 32-bit math on both branches.
SizeVarint_x32(x) == SizeLoop(0, Trunc32(x))

SizeVarint(x) == IF Hi32Zero(x) THEN SizeLoop(0, Trunc32(x)) ELSE SizeLoop(0, x)

EncodeFixed64(buf, x) ==
    buf \o <<ByteAt(x, 0), ByteAt(x, 1), ByteAt(x, 2), ByteAt(x, 3),
             ByteAt(x, 4), ByteAt(x, 5), ByteAt(x, 6), ByteAt(x, 7)>>

EncodeFixed32(buf, x) ==
    buf \o <<ByteAt(x, 0), ByteAt(x, 1), ByteAt(x, 2), ByteAt(x, 3)>>

\* (x << 1) ^ uint64(int64(x) >> 63)
EncodeZigzag64(buf, x) ==
    EncodeVarint(buf, FromBits(LAMBDA i :
        IF i > 63 THEN 0 ELSE Xor(IF i = 0 THEN 0 ELSE Bit(x, i - 1), Bit(x, 63))))

\* uint64((uint32(x) << 1) ^ uint32(int32(x) >> 31))
EncodeZigzag32(buf, x) ==
    EncodeVarint(buf, FromBits(LAMBDA i :
        IF i > 31 THEN 0 ELSE Xor(IF i = 0 THEN 0 ELSE Bit(x, i - 1), Bit(x, 31))))

EncodeRawBytes(buf, b) == EncodeVarint(buf, FromNat(Len(b))) \o b

EncodeStringBytes(buf, s) == EncodeVarint(buf, FromNat(Len(s))) \o s


\* ------------------------------------------------------------ Go types

\* A reflect.Type: its Kind, its element type (Elem, in a one-element tuple),
\* its key type (maps), its length (arrays) and its name (struct types).
Scalar(k) == [kind |-> k, elem |-> <<>>, key |-> <<>>, len |-> 0, name |-> ""]
PtrTo(t) == [kind |-> "ptr", elem |-> <<t>>, key |-> <<>>, len |-> 0, name |-> ""]
SliceOf(t) == [kind |-> "slice", elem |-> <<t>>, key |-> <<>>, len |-> 0, name |-> ""]
ArrayOf(n, t) == [kind |-> "array", elem |-> <<t>>, key |-> <<>>, len |-> n, name |-> ""]
MapOf(k, t) == [kind |-> "map", elem |-> <<t>>, key |-> <<k>>, len |-> 0, name |-> ""]
StructT(n) == [kind |-> "struct", elem |-> <<>>, key |-> <<>>, len |-> 0, name |-> n]
Elem(t) == t.elem[1]

\* A struct field: its name, its type, and its `protobuf`, `protobuf_key` and
\* `protobuf_val` tags. A tag is the list of its comma separated parts; the
\* empty list is the empty (absent) tag.
Field(n, t, tag) == [Name |-> n, Type |-> t, protobuf |-> tag, protobuf_key |-> <<>>, protobuf_val |-> <<>>]
MapField(n, t, tag, k, v) == [Name |-> n, Type |-> t, protobuf |-> tag, protobuf_key |-> k, protobuf_val |-> v]

TimeType == "time.Time"

\* The record types of the program under study: those of unit_test.go and
\* companions built from the same shapes.  marshaler / appender say whether
\* the pointer to the type implements Marshaler / Appender.
TypeDecl ==
    [ InnerMsg |-> [marshaler |-> FALSE, appender |-> FALSE, fields |->
        << Field("i", Scalar("int32"), <<"varint", "2">>) >>],
      Msg |-> [marshaler |-> FALSE, appender |-> FALSE, fields |->
        << Field("name", Scalar("string"), <<"bytes", "9">>),
           Field("flag", Scalar("bool"), <<"varint", "2">>),
           Field("cache", Scalar("int64"), <<"-">>),
           Field("n", Scalar("int32"), <<"varint", "5">>) >>],
      OptMsg |-> [marshaler |-> FALSE, appender |-> FALSE, fields |->
        << Field("pi", PtrTo(Scalar("int32")), <<"zigzag32", "11">>),
           Field("ps", PtrTo(Scalar("string")), <<"bytes", "3">>) >>],
      NestedMsg |-> [marshaler |-> FALSE, appender |-> FALSE, fields |->
        << Field("b", Scalar("bool"), <<"varint", "1">>),
           Field("second", StructT("InnerMsg"), <<"bytes", "3">>),
           Field("first", PtrTo(StructT("InnerMsg")), <<"bytes", "2">>) >>],
      RepMsg |-> [marshaler |-> FALSE, appender |-> FALSE, fields |->
        << Field("many", SliceOf(PtrTo(StructT("InnerMsg"))), <<"bytes", "3">>),
           Field("b", Scalar("bool"), <<"varint", "4">>) >>],
      RepArrMsg |-> [marshaler |-> FALSE, appender |-> FALSE, fields |->
        << Field("more", ArrayOf(2, PtrTo(StructT("InnerMsg"))), <<"bytes", "4">>) >>],
      RepMMsg |-> [marshaler |-> FALSE, appender |-> FALSE, fields |->
        << Field("ms", SliceOf(PtrTo(StructT("M"))), <<"bytes", "1">>) >>],
      RepAMsg |-> [marshaler |-> FALSE, appender |-> FALSE, fields |->
        << Field("as", SliceOf(PtrTo(StructT("A"))), <<"bytes", "1">>) >>],
      PackedMsg |-> [marshaler |-> FALSE, appender |-> FALSE, fields |->
        << Field("b", Scalar("bool"), <<"varint", "1">>),
           Field("si32", SliceOf(Scalar("int32")), <<"varint", "21", "packed">>) >>],
      PackedZMsg |-> [marshaler |-> FALSE, appender |-> FALSE, fields |->
        << Field("si64", SliceOf(Scalar("int64")), <<"zigzag64", "22", "packed">>) >>],
      PackedFMsg |-> [marshaler |-> FALSE, appender |-> FALSE, fields |->
        << Field("su32", SliceOf(Scalar("uint32")), <<"fixed32", "22", "packed">>) >>],
      ArrMsg |-> [marshaler |-> FALSE, appender |-> FALSE, fields |->
        << Field("ab", ArrayOf(2, Scalar("bool")), <<"varint", "25", "packed">>),
           Field("none", ArrayOf(0, Scalar("int32")), <<"varint", "26", "packed">>) >>],
      PtrArrMsg |-> [marshaler |-> FALSE, appender |-> FALSE, fields |->
        << Field("pa", PtrTo(StructT("ArrMsg")), <<"bytes", "1">>) >>],
      TimeMsg |-> [marshaler |-> FALSE, appender |-> FALSE, fields |->
        << Field("t", StructT(TimeType), <<"bytes", "1">>) >>],
      MapMsg |-> [marshaler |-> FALSE, appender |-> FALSE, fields |->
        << MapField("m", MapOf(Scalar("string"), Scalar("int32")), <<"bytes", "1">>,
                    <<"bytes", "1">>, <<"varint", "2">>) >>],
      DupMsg |-> [marshaler |-> FALSE, appender |-> FALSE, fields |->
        << Field("a", Scalar("int32"), <<"varint", "5">>),
           Field("b", Scalar("bool"), <<"varint", "5">>) >>],
      RecursiveTypeMsg |-> [marshaler |-> FALSE, appender |-> FALSE, fields |->
        << Field("self", PtrTo(StructT("RecursiveTypeMsg")), <<"bytes", "1">>),
           Field("b", Scalar("bool"), <<"varint", "22334455">>) >>],
      ChainA |-> [marshaler |-> FALSE, appender |-> FALSE, fields |->
        << Field("b", Scalar("bool"), <<"varint", "2">>),
           Field("next", PtrTo(StructT("ChainB")), <<"bytes", "1">>) >>],
      ChainB |-> [marshaler |-> FALSE, appender |-> FALSE, fields |->
        << Field("backs", SliceOf(PtrTo(StructT("ChainA"))), <<"bytes", "1">>) >>],
      NoTagMsg |-> [marshaler |-> FALSE, appender |-> FALSE, fields |->
        << Field("n", Scalar("int32"), <<"varint", "5">>),
           Field("u", Scalar("int32"), <<>>) >>],
      NoEncMsg |-> [marshaler |-> FALSE, appender |-> FALSE, fields |->
        << Field("b", Scalar("bool"), <<"varint", "1">>),
           Field("ss", SliceOf(SliceOf(Scalar("int32"))), <<"bytes", "2">>) >>],
      AMsg |-> [marshaler |-> FALSE, appender |-> FALSE, fields |->
        << Field("a", StructT("A"), <<"bytes", "1">>),
           Field("pa", PtrTo(StructT("A")), <<"bytes", "2">>) >>],
      DupOuterMsg |-> [marshaler |-> FALSE, appender |-> FALSE, fields |->
        << Field("n", Scalar("int32"), <<"varint", "1">>),
           Field("d", StructT("DupMsg"), <<"bytes", "2">>) >>],
      MapBytesMsg |-> [marshaler |-> FALSE, appender |-> FALSE, fields |->
        << MapField("mb", MapOf(Scalar("int32"), SliceOf(Scalar("uint8"))), <<"bytes", "3">>,
                    <<"varint", "1">>, <<"bytes", "2">>) >>],
      RepValMsg |-> [marshaler |-> FALSE, appender |-> FALSE, fields |->
        << Field("vs", SliceOf(StructT("InnerMsg")), <<"bytes", "1">>),
           Field("va", ArrayOf(2, StructT("InnerMsg")), <<"bytes", "2">>),
           Field("pz", SliceOf(PtrTo(StructT("ArrMsg"))), <<"bytes", "3">>) >>],
      RepSelfMsg |-> [marshaler |-> FALSE, appender |-> FALSE, fields |->
        << Field("as", SliceOf(StructT("A")), <<"bytes", "1">>),
           Field("ms", ArrayOf(2, StructT("M")), <<"bytes", "2">>) >>],
      M |-> [marshaler |-> TRUE, appender |-> FALSE, fields |->
        << Field("x", Scalar("int32"), <<"varint", "1">>) >>],
      A |-> [marshaler |-> FALSE, appender |-> TRUE, fields |->
        << Field("x", Scalar("int32"), <<"varint", "1">>) >>] ]

\* The struct types the program declares, and with time.Time the keys the
\* schema cache can hold.
DeclaredTypes == DOMAIN TypeDecl
TypeNames == DeclaredTypes \cup {TimeType}

NumField(t) == Len(TypeDecl[t].fields)

\* -------------------------------------------------- field descriptors

WireVarint == 0
WireFixed64 == 1
WireBytes == 2
WireFixed32 == 5

\* The zero value of Properties.  enc and valEnc name the encoder function
\* ("nil": none); sprop is the address of the nested schema (0: nil);
\* mkeyprop and mvalprop are nil (<<>>) or hold the pointed-to Properties;
\* field is the number of the struct field the descriptor reads (its offset).
\* asProtobuf, which only the schema-as-text export reads, is left out.
ZeroProperties ==
    [Name |-> "", Wire |-> <<>>, Tag |-> 0, WireType |-> WireVarint,
     enc |-> "nil", valEnc |-> "nil", field |-> 0, tagcode |-> <<>>,
     stype |-> "", sprop |-> 0, isMarshaler |-> FALSE, isAppender |-> FALSE,
     mtype |-> <<>>, mkeyprop |-> <<>>, mvalprop |-> <<>>, length |-> 0]

\* strings.Split(s, ","): the empty string splits into one empty part.
Split(s) == IF s = <<>> THEN <<"">> ELSE s

\* strconv.Atoi on the numerals the struct tags of the program use; any
\* other text is a syntax error.
Numerals ==
    [n \in {"0", "1", "2", "3", "4", "5", "9", "11", "21", "22", "25", "26",
            "22334455", "-1", "15", "16", "2047", "2048", "536870911", "536870912",
            "536870913", "2147483647"} |->
        CASE n = "0" -> 0 [] n = "1" -> 1 [] n = "2" -> 2 [] n = "3" -> 3
          [] n = "4" -> 4 [] n = "5" -> 5 [] n = "9" -> 9 [] n = "11" -> 11
          [] n = "21" -> 21 [] n = "22" -> 22 [] n = "25" -> 25 [] n = "26" -> 26
          [] n = "22334455" -> 22334455 [] n = "-1" -> -1
          [] n = "15" -> 15 [] n = "16" -> 16 [] n = "2047" -> 2047 [] n = "2048" -> 2048
          [] n = "536870911" -> 536870911 [] n = "536870912" -> 536870912
          [] n = "536870913" -> 536870913 [] n = "2147483647" -> 2147483647]

Atoi(s) == IF s \in DOMAIN Numerals THEN [n |-> Numerals[s], err |-> FALSE]
           ELSE [n |-> 0, err |-> TRUE]

\* Parse returns the descriptor, the integer encoder, skip and the error.
Parse(p, s) ==
    LET p1 == [p EXCEPT !.Wire = s]
        fields == Split(s)
        kinds == [varint   |-> [valEnc |-> "EncodeVarint", wt |-> WireVarint, enc |-> "VarintEncoder"],
                  fixed32  |-> [valEnc |-> "EncodeFixed32", wt |-> WireFixed32, enc |-> "Fixed32Encoder"],
                  fixed64  |-> [valEnc |-> "EncodeFixed64", wt |-> WireFixed64, enc |-> "Fixed64Encoder"],
                  zigzag32 |-> [valEnc |-> "EncodeZigzag32", wt |-> WireVarint, enc |-> "Zigzag32Encoder"],
                  zigzag64 |-> [valEnc |-> "EncodeZigzag64", wt |-> WireVarint, enc |-> "Zigzag64Encoder"],
                  bytes    |-> [valEnc |-> p.valEnc, wt |-> WireBytes, enc |-> "UnknownEncoder"]]
    IN  IF Len(fields) < 2
        THEN IF Len(fields) > 0 /\ fields[1] = "-"
             THEN [p |-> p1, enc |-> "UnknownEncoder", skip |-> TRUE, err |-> "nil"]
             ELSE [p |-> p1, enc |-> "UnknownEncoder", skip |-> TRUE, err |-> "too few fields"]
        ELSE IF fields[1] \notin DOMAIN kinds
        THEN [p |-> p1, enc |-> "UnknownEncoder", skip |-> FALSE, err |-> "unknown wire type"]
        ELSE LET k == kinds[fields[1]]
                 p2 == [p1 EXCEPT !.valEnc = k.valEnc, !.WireType = k.wt]
                 tag == Atoi(fields[2])
             IN  IF tag.err
                 THEN [p |-> p2, enc |-> "UnknownEncoder", skip |-> FALSE, err |-> "tag id invalid"]
                 ELSE IF tag.n <= 0
                 THEN [p |-> p2, enc |-> "UnknownEncoder", skip |-> FALSE, err |-> "tag id out of range"]
                 ELSE [p |-> [p2 EXCEPT !.Tag = tag.n], enc |-> k.enc, skip |-> FALSE, err |-> "nil"]

\* isMarshaler(t): t implements Marshaler.  In this program only pointers to
\* the struct types declared so implement it.
isMarshaler(t) ==
    /\ t.kind = "ptr"
    /\ Elem(t).kind = "struct"
    /\ Elem(t).name \in DeclaredTypes
    /\ TypeDecl[Elem(t).name].marshaler

\* The struct type whose schema setEnc asks getPropertiesLocked for ("": none).
StructTypeOf(typ) ==
    CASE typ.kind = "struct" -> typ.name
      [] typ.kind = "ptr" /\ Elem(typ).kind = "struct" -> Elem(typ).name
      [] typ.kind = "slice" /\ ~isMarshaler(PtrTo(typ)) /\ Elem(typ).kind = "struct" -> Elem(typ).name
      [] typ.kind = "slice" /\ ~isMarshaler(PtrTo(typ)) /\ Elem(typ).kind = "ptr"
            /\ Elem(Elem(typ)).kind = "struct" -> Elem(Elem(typ)).name
      [] typ.kind = "array" /\ typ.len # 0 /\ Elem(typ).kind = "struct" -> Elem(typ).name
      [] typ.kind = "array" /\ typ.len # 0 /\ Elem(typ).kind = "ptr"
            /\ Elem(Elem(typ)).kind = "struct" -> Elem(Elem(typ)).name
      [] OTHER -> ""

\* The precalculated tag code: x := p.Tag<<3 | uint32(wire), laid down as a varint.
RECURSIVE TagLoop(_, _)
TagLoop(buf, x) ==
    IF Ge128(x) THEN TagLoop(Append(buf, 128 + x[1]), Shr7(x)) ELSE Append(buf, U8(x))

\* A tag code that leaves the wire type out: x := p.Tag<<3.
TagCode_nowire(tag, wire) == TagLoop(<<>>, FromNat(tag * 8))

TagCode(tag, wire) ==
    LET t == FromNat(tag)
        w == FromNat(wire)
    IN  TagLoop(<<>>, FromBits(LAMBDA i :
            IF i > 31 THEN 0 ELSE IF i < 3 THEN Bit(w, i) ELSE Bit(t, i - 3)))

\* The encoder setEnc picks for each element kind of a scalar field, of a
\* pointer field, of a slice field (and whether the wire type becomes
\* WireBytes) and of an array field.
ScalarEnc ==
    [bool |-> "enc_bool", int |-> "enc_int", uint |-> "enc_uint", int8 |-> "enc_int8",
     uint8 |-> "enc_uint8", int16 |-> "enc_int16", uint16 |-> "enc_uint16",
     int32 |-> "enc_int32", uint32 |-> "enc_uint32", int64 |-> "enc_int64",
     uint64 |-> "enc_int64", float32 |-> "enc_uint32", float64 |-> "enc_int64",
     string |-> "enc_string"]

PtrEnc ==
    [bool |-> "enc_ptr_bool", int32 |-> "enc_ptr_int32", uint32 |-> "enc_ptr_uint32",
     int64 |-> "enc_ptr_int64", uint64 |-> "enc_ptr_int64", float32 |-> "enc_ptr_uint32",
     float64 |-> "enc_ptr_int64", string |-> "enc_ptr_string"]

SliceEnc ==
    [bool |-> [enc |-> "enc_slice_packed_bool", bytes |-> TRUE],
     int |-> [enc |-> "enc_slice_packed_int", bytes |-> TRUE],
     uint |-> [enc |-> "enc_slice_packed_uint", bytes |-> TRUE],
     int8 |-> [enc |-> "enc_slice_packed_int8", bytes |-> TRUE],
     uint8 |-> [enc |-> "enc_slice_byte", bytes |-> TRUE],
     int16 |-> [enc |-> "enc_slice_packed_int16", bytes |-> TRUE],
     uint16 |-> [enc |-> "enc_slice_packed_uint16", bytes |-> TRUE],
     int32 |-> [enc |-> "enc_slice_packed_int32", bytes |-> TRUE],
     uint32 |-> [enc |-> "enc_slice_packed_uint32", bytes |-> TRUE],
     int64 |-> [enc |-> "enc_slice_packed_int64", bytes |-> TRUE],
     uint64 |-> [enc |-> "enc_slice_packed_int64", bytes |-> TRUE],
     float32 |-> [enc |-> "enc_slice_packed_uint32", bytes |-> TRUE],
     float64 |-> [enc |-> "enc_slice_packed_int64", bytes |-> TRUE],
     string |-> [enc |-> "enc_slice_string", bytes |-> FALSE]]

ArrayEnc ==
    [bool |-> [enc |-> "enc_array_packed_bool", bytes |-> TRUE],
     int32 |-> [enc |-> "enc_array_packed_int32", bytes |-> TRUE],
     uint32 |-> [enc |-> "enc_array_packed_uint32", bytes |-> TRUE],
     int64 |-> [enc |-> "enc_array_packed_int64", bytes |-> TRUE],
     uint64 |-> [enc |-> "enc_array_packed_int64", bytes |-> TRUE],
     uint8 |-> [enc |-> "enc_array_byte", bytes |-> FALSE],
     float32 |-> [enc |-> "enc_array_packed_uint32", bytes |-> TRUE],
     float64 |-> [enc |-> "enc_array_packed_int64", bytes |-> TRUE],
     string |-> [enc |-> "enc_array_string", bytes |-> FALSE]]

\* isAppender(t): t implements Appender; as with Marshaler, only pointers to
\* the struct types declared so.
isAppender(t) ==
    /\ t.kind = "ptr"
    /\ Elem(t).kind = "struct"
    /\ Elem(t).name \in DeclaredTypes
    /\ TypeDecl[Elem(t).name].appender

\* What the schema compiler does for a self-appending type, which pre-empts
\* the other ways to encode it: a struct or *struct field is handed to
\* enc_appender or enc_ptr_appender, and a repeated field of them is marked
\* isAppender for its encoder to test.
setAppender(p, typ) ==
    LET k == typ.kind
        rep == k = "slice" \/ (k = "array" /\ typ.len # 0)
    IN  IF k = "struct" /\ isAppender(PtrTo(typ))
        THEN [p EXCEPT !.isAppender = TRUE, !.enc = "enc_appender"]
        ELSE IF k = "ptr" /\ isAppender(typ)
        THEN [p EXCEPT !.isAppender = TRUE, !.enc = "enc_ptr_appender"]
        ELSE IF rep /\ (isAppender(Elem(typ)) \/ (Elem(typ).kind = "struct" /\ isAppender(PtrTo(Elem(typ)))))
        THEN [p EXCEPT !.isAppender = TRUE]
        ELSE p

\* setEnc and init call each other (a map field builds the descriptors of its
\* key and its value with init).  pm is propertiesMap as getPropertiesLocked
\* leaves it: the schema of every nested struct type is in it by then.
\* f is nil (<<>>) or holds the struct field.
RECURSIVE setEnc(_, _, _, _, _)
RECURSIVE init(_, _, _, _, _, _)

\* The part of setEnc for struct elements: stype, sprop, isMarshaler and enc.
setEncStruct(p, st, ptrType, encPlain, encMarshaler, pm) ==
    LET m == isMarshaler(ptrType)
    IN  [p EXCEPT !.stype = st.name, !.sprop = pm[st.name], !.isMarshaler = m,
                  !.enc = IF m THEN encMarshaler ELSE encPlain]

setEnc(p, typ, f, int_encoder, pm) ==
    LET p0 == [p EXCEPT !.enc = "nil"]
        wire0 == p.WireType
        none == [p |-> p0, wire |-> wire0]
        k == typ.kind
        r == CASE k \in DOMAIN ScalarEnc ->
                    [p |-> [p0 EXCEPT !.enc = ScalarEnc[k]], wire |-> wire0]
               [] k = "struct" ->
                    [p |-> setEncStruct(p0, typ, PtrTo(typ), "enc_struct_message", "enc_marshaler", pm),
                     wire |-> wire0]
               [] k = "ptr" ->
                    LET t2 == Elem(typ)
                    IN  IF t2.kind \in DOMAIN PtrEnc
                        THEN [p |-> [p0 EXCEPT !.enc = PtrEnc[t2.kind]], wire |-> wire0]
                        ELSE IF t2.kind = "struct"
                        THEN [p |-> setEncStruct(p0, t2, typ, "enc_ptr_struct_message", "enc_ptr_marshaler", pm),
                              wire |-> wire0]
                        ELSE none
               [] k = "slice" ->
                    LET t2 == Elem(typ)
                    IN  IF isMarshaler(PtrTo(typ))
                        THEN [p |-> [p0 EXCEPT !.isMarshaler = TRUE, !.stype = typ.name,
                                               !.enc = "enc_marshaler"], wire |-> wire0]
                        ELSE IF t2.kind \in DOMAIN SliceEnc
                        THEN [p |-> [p0 EXCEPT !.enc = SliceEnc[t2.kind].enc],
                              wire |-> IF SliceEnc[t2.kind].bytes THEN WireBytes ELSE wire0]
                        ELSE IF t2.kind = "struct"
                        THEN [p |-> setEncStruct(p0, t2, PtrTo(t2), "enc_slice_struct_message",
                                                 "enc_slice_struct_message", pm), wire |-> wire0]
                        ELSE IF t2.kind = "ptr" /\ Elem(t2).kind = "struct"
                        THEN [p |-> setEncStruct(p0, Elem(t2), t2, "enc_slice_ptr_struct_message",
                                                 "enc_slice_ptr_struct_message", pm), wire |-> wire0]
                        ELSE IF t2.kind = "slice" /\ Elem(t2).kind = "uint8"
                        THEN [p |-> [p0 EXCEPT !.enc = "enc_slice_slice_byte"], wire |-> wire0]
                        ELSE none
               [] k = "array" ->
                    LET t2 == Elem(typ)
                        pl == [p0 EXCEPT !.length = typ.len]
                    IN  IF typ.len = 0
                        THEN [p |-> [pl EXCEPT !.enc = "enc_nothing"], wire |-> wire0]
                        ELSE IF t2.kind \in DOMAIN ArrayEnc
                        THEN [p |-> [pl EXCEPT !.enc = ArrayEnc[t2.kind].enc],
                              wire |-> IF ArrayEnc[t2.kind].bytes THEN WireBytes ELSE wire0]
                        ELSE IF t2.kind = "struct"
                        THEN [p |-> setEncStruct(pl, t2, PtrTo(t2), "enc_array_struct_message",
                                                 "enc_array_struct_message", pm), wire |-> wire0]
                        ELSE IF t2.kind = "ptr" /\ Elem(t2).kind = "struct"
                        THEN [p |-> setEncStruct(pl, Elem(t2), t2, "enc_array_ptr_struct_message",
                                                 "enc_array_ptr_struct_message", pm), wire |-> wire0]
                        ELSE [p |-> pl, wire |-> wire0]
               [] k = "map" ->
                    LET vt == Elem(typ)
                        vtype == IF vt.kind # "ptr" /\ vt.kind # "slice" THEN PtrTo(vt) ELSE vt
                        kp == init(ZeroProperties, PtrTo(typ.key[1]), "Key", f[1].protobuf_key, <<>>, pm).p
                        vp == init(ZeroProperties, vtype, "Value", f[1].protobuf_val, <<>>, pm).p
                    IN  [p |-> [p0 EXCEPT !.enc = "enc_new_map", !.mtype = <<typ>>,
                                          !.mkeyprop = <<kp>>, !.mvalprop = <<vp>>],
                         wire |-> wire0]
               [] OTHER -> none
    IN  [setAppender(r.p, typ) EXCEPT !.tagcode = TagCode(r.p.Tag, r.wire)]

\* init returns the descriptor as it leaves it, skip and the error ("nil": none).
\* f also carries the number of the field (its offset).
init(p, typ, name, tag, f, pm) ==
    IF tag = <<>>
    THEN [p |-> p, skip |-> TRUE, err |-> "lacks a protobuf tag"]
    ELSE LET p1 == [p EXCEPT !.Name = name,
                             !.field = IF f # <<>> THEN f[1].Index ELSE p.field]
             r == Parse(p1, tag)
         IN  IF r.skip \/ r.err # "nil"
             THEN [p |-> r.p, skip |-> r.skip, err |-> r.err]
             ELSE [p |-> setEnc(r.p, typ, f, r.enc, pm), skip |-> FALSE, err |-> "nil"]

\* ------------------------------------------------------------ state

VARIABLES
    propertiesMap,  \* the schema cache: struct type -> address of its StructProperties (0: no entry)
    heap,           \* the StructProperties allocated so far, by address
    mu,             \* propertiesMu: [writer |-> goroutine holding Lock (0: none), readers |-> those holding RLock]
    pc,             \* where each goroutine is
    call,           \* the call each goroutine is in: its operation and its argument
    stack,          \* the getPropertiesLocked activations of each goroutine, innermost last
    sprop,          \* GetProperties' local sprop of each goroutine (0: nil)
    result,         \* what the call returned: Marshal's bytes and error, and the Buffer as it was left
    returned,       \* history: the schema addresses GetProperties has returned, by type
    ncalls          \* the number of calls made so far

vars == <<propertiesMap, heap, mu, pc, call, stack, sprop, result, returned, ncalls>>

\* ------------------------------------------------------- the encoder

\* A Buffer: the bytes written, the error noted ("nil": none), and whether
\* the goroutine panicked (a call through a nil encoder function).
NewBuffer == [buf |-> <<>>, err |-> "nil", panic |-> FALSE]

errRepeatedHasNil == "protobuf3: repeated field has nil element"
ErrNil == "protobuf3: [Un]Marshal called with nil"
ErrNotPointerToStruct == "protobuf3: can't Marshal: not a *struct type"
ErrMarshaler == "MarshalProtobuf3 failed"
ErrAppender == "AppendProtobuf3 failed"
ErrBuggyAppender == "protobuf3: buggy AppendProtobuf3 implementation returned []byte len"

\* noteError records an error on the Buffer; the first error noted is kept.
noteError(o, err) == IF o.err = "nil" THEN [o EXCEPT !.err = err] ELSE o

\* The value of the field the descriptor reads: *(base + p.offset).
At(p, base) == base[p.field + 1]

\* o.buf = append(o.buf, p.tagcode...)
AppendTag(o, p) == [o EXCEPT !.buf = @ \o p.tagcode]

\* p.valEnc(o, x); a nil valEnc is a call through a nil function: a panic.
valEnc(o, p, x) ==
    CASE p.valEnc = "EncodeVarint" -> [o EXCEPT !.buf = EncodeVarint(@, x)]
      [] p.valEnc = "EncodeFixed32" -> [o EXCEPT !.buf = EncodeFixed32(@, x)]
      [] p.valEnc = "EncodeFixed64" -> [o EXCEPT !.buf = EncodeFixed64(@, x)]
      [] p.valEnc = "EncodeZigzag32" -> [o EXCEPT !.buf = EncodeZigzag32(@, x)]
      [] p.valEnc = "EncodeZigzag64" -> [o EXCEPT !.buf = EncodeZigzag64(@, x)]
      [] OTHER -> [o EXCEPT !.panic = TRUE]

enc_ptr_bool(o, p, base) ==
    LET v == At(p, base)
    IN  IF v = <<>> THEN o
        ELSE valEnc(AppendTag(o, p), p, FromNat(IF v[1] THEN 1 ELSE 0))

enc_bool(o, p, base) ==
    IF ~At(p, base) THEN o ELSE valEnc(AppendTag(o, p), p, FromNat(1))

\* enc_ptr_int32 writing nothing for a pointer to zero.
enc_ptr_int32_elide(o, p, base) ==
    LET v == At(p, base)
    IN  IF v = <<>> \/ v[1] = 0 THEN o ELSE valEnc(AppendTag(o, p), p, FromInt(v[1]))

\* enc_ptr_int32, and enc_ptr_int64 (which reads the 64 bits as they are).
enc_ptr_int32(o, p, base) ==
    LET v == At(p, base)
    IN  IF v = <<>> THEN o ELSE valEnc(AppendTag(o, p), p, FromInt(v[1]))

\* enc_int32 without the test for zero.
enc_int32_always(o, p, base) == valEnc(AppendTag(o, p), p, FromInt(At(p, base)))

\* enc_int32, and enc_int, enc_int8, enc_int16 and enc_int64, which differ in
\* the width read: uint64(x) sign extends.
enc_int32(o, p, base) ==
    LET x == At(p, base)
    IN  IF x = 0 THEN o ELSE valEnc(AppendTag(o, p), p, FromInt(x))

enc_ptr_uint32(o, p, base) ==
    LET v == At(p, base)
    IN  IF v = <<>> THEN o ELSE valEnc(AppendTag(o, p), p, FromNat(v[1]))

\* enc_uint32, and enc_uint, enc_uint8 and enc_uint16: no sign extension.
enc_uint32(o, p, base) ==
    LET x == At(p, base)
    IN  IF x = 0 THEN o ELSE valEnc(AppendTag(o, p), p, FromNat(x))

enc_ptr_string(o, p, base) ==
    LET v == At(p, base)
    IN  IF v = <<>> THEN o
        ELSE [o EXCEPT !.buf = EncodeStringBytes(@ \o p.tagcode, v[1])]

enc_string(o, p, base) ==
    LET x == At(p, base)
    IN  IF x = <<>> THEN o
        ELSE [o EXCEPT !.buf = EncodeStringBytes(@ \o p.tagcode, x)]

\* A value of a type that implements Marshaler is held as what its
\* MarshalProtobuf3 returns: [data |-> nil (<<>>) or <<the bytes>>, err |-> failed].
\* The part enc_marshaler, enc_ptr_marshaler and the repeated encoders share:
\* the call and what follows it; always: encode nil data too.
MarshalOne(o, p, m, always) ==
    IF m.err THEN noteError(o, ErrMarshaler)
    ELSE IF ~always /\ m.data = <<>> THEN o
    ELSE LET data == IF m.data = <<>> THEN <<>> ELSE m.data[1]
             o1 == AppendTag(o, p)
         IN  [o1 EXCEPT !.buf =
                 (IF p.WireType = WireBytes THEN EncodeVarint(@, FromNat(Len(data))) ELSE @)
                 \o data]

enc_marshaler(o, p, base) == MarshalOne(o, p, At(p, base), FALSE)

enc_ptr_marshaler(o, p, base) ==
    LET ptr == At(p, base)
    IN  IF ptr = <<>> THEN o ELSE MarshalOne(o, p, ptr[1], FALSE)

\* arr with bytes laid over it from index at (0-based) on.
Overwrite(arr, at, bytes) ==
    [i \in 1..Len(arr) |->
        IF i > at /\ i <= at + Len(bytes) THEN bytes[i - at] ELSE arr[i]]

\* copy(arr[dst:], arr[src:src+n])
Copy(arr, dst, src, n) ==
    [i \in 1..Len(arr) |-> IF i > dst /\ i <= dst + n THEN arr[src + (i - dst)] ELSE arr[i]]

Zeroes(n) == [i \in 1..n |-> 0]

\* A value of a type that implements Appender is held as what its
\* AppendProtobuf3 does: [app |-> the bytes it appends, err |-> failed,
\* short |-> it returns nil instead of the grown argument].
\* encode_appender returns the Buffer and the error.
\* encode_appender laying the length down in the one byte reserved, whatever
\* the length.
encode_appender_onebyte(o, p, a, must_encode) ==
    LET n1 == Len(o.buf)
        o1 == [o EXCEPT !.buf = IF p.WireType = WireBytes
                                THEN (@ \o p.tagcode) \o <<0>> ELSE @ \o p.tagcode]
        n2 == Len(o1.buf)
        b == IF a.short THEN <<>> ELSE o1.buf \o a.app
    IN  IF a.err THEN [o |-> noteError(o1, ErrAppender), err |-> ErrAppender]
        ELSE IF Len(b) < Len(o1.buf)
        THEN [o |-> noteError(o1, ErrBuggyAppender), err |-> ErrBuggyAppender]
        ELSE IF ~must_encode /\ Len(b) = n2
        THEN [o |-> [o1 EXCEPT !.buf = SubSeq(b, 1, n1)], err |-> "nil"]
        ELSE IF p.WireType # WireBytes
        THEN [o |-> [o1 EXCEPT !.buf = b], err |-> "nil"]
        ELSE [o |-> [o1 EXCEPT !.buf = Overwrite(b, n2 - 1, <<(Len(b) - n2) % 256>>)],
              err |-> "nil"]

\* encode_appender without the test of the length of what AppendProtobuf3
\* returned.
encode_appender_unchecked(o, p, a, must_encode) ==
    LET n1 == Len(o.buf)
        o1 == [o EXCEPT !.buf = IF p.WireType = WireBytes
                                THEN (@ \o p.tagcode) \o <<0>> ELSE @ \o p.tagcode]
        n2 == Len(o1.buf)
        b == IF a.short THEN <<>> ELSE o1.buf \o a.app
    IN  IF a.err THEN [o |-> noteError(o1, ErrAppender), err |-> ErrAppender]
        ELSE IF ~must_encode /\ Len(b) = n2
        THEN [o |-> [o1 EXCEPT !.buf = SubSeq(b, 1, n1)], err |-> "nil"]
        ELSE [o |-> [o1 EXCEPT !.buf = b], err |-> "nil"]

encode_appender(o, p, a, must_encode) ==
    LET n1 == Len(o.buf)
        o1 == [o EXCEPT !.buf = IF p.WireType = WireBytes
                                THEN (@ \o p.tagcode) \o <<0>> ELSE @ \o p.tagcode]
        n2 == Len(o1.buf)
        b == IF a.short THEN <<>> ELSE o1.buf \o a.app
    IN  IF a.err THEN [o |-> noteError(o1, ErrAppender), err |-> ErrAppender]
        ELSE IF Len(b) < Len(o1.buf)
        THEN [o |-> noteError(o1, ErrBuggyAppender), err |-> ErrBuggyAppender]
        ELSE IF ~must_encode /\ Len(b) = n2
        THEN [o |-> [o1 EXCEPT !.buf = SubSeq(b, 1, n1)], err |-> "nil"]
        ELSE IF p.WireType # WireBytes
        THEN [o |-> [o1 EXCEPT !.buf = b], err |-> "nil"]
        ELSE LET n == Len(b) - n2
             IN  IF n < 128
                 THEN [o |-> [o1 EXCEPT !.buf = Overwrite(b, n2 - 1, <<n>>)], err |-> "nil"]
                 ELSE LET s == SizeVarint(FromNat(n))
                          \* append(o.buf[:n2-1+s], o.buf[n2:]...): the payload moves right
                          moved == Copy(b \o Zeroes(s - 1), n2 - 1 + s, n2, n)
                          n3 == Len(moved)
                      IN  [o |-> [o1 EXCEPT !.buf =
                                     SubSeq(Overwrite(moved, n2 - 1,
                                                      EncodeVarint(<<>>, FromNat(n))), 1, n3)],
                           err |-> "nil"]

enc_appender(o, p, base) == encode_appender(o, p, At(p, base), FALSE).o

enc_ptr_appender(o, p, base) ==
    LET ptr == At(p, base)
    IN  IF ptr = <<>> THEN o ELSE encode_appender(o, p, ptr[1], FALSE).o

\* The descriptors of a schema in encode order (prop.props of enc_struct).
props(sp) == [k \in 1..Len(sp.order) |-> sp.Prop[sp.order[k] + 1]]

RECURSIVE enc_struct(_, _, _)
RECURSIVE CallEnc(_, _, _)

\* Encode something, preceded by its encoded length (as a varint).
enc_len_thing(o, enc(_)) ==
    LET iLen == Len(o.buf)
        o1 == [o EXCEPT !.buf = @ \o <<0, 0, 0, 0>>]
        iMsg == Len(o1.buf)
        o2 == enc(o1)
        lMsg == Len(o2.buf) - iMsg
        lLen == SizeVarint(FromNat(lMsg))
        x == lLen - (iMsg - iLen)
        arr == IF x > 0 THEN Copy(o2.buf \o Zeroes(x), iMsg + x, iMsg, lMsg)
               ELSE IF x < 0 THEN Copy(o2.buf, iMsg + x, iMsg, lMsg)
               ELSE o2.buf
        length == EncodeVarint(<<>>, FromNat(lMsg))
    IN  IF o2.panic THEN o2
        ELSE [o2 EXCEPT !.buf = SubSeq(Overwrite(arr, iLen, length), 1,
                                       iLen + Len(length) + lMsg)]

enc_len_struct(o, prop, base) == enc_len_thing(o, LAMBDA b : enc_struct(b, prop, base))

\* enc_struct_message without the test for a body of no bytes.
enc_struct_message_keep(o, p, base) == enc_len_struct(AppendTag(o, p), p.sprop, At(p, base))

\* enc_struct_message taking one byte too many back from the buffer.
enc_struct_message_cut(o, p, base) ==
    LET iTag == Len(o.buf)
        o1 == AppendTag(o, p)
        iLen == Len(o1.buf)
        o2 == enc_len_struct(o1, p.sprop, At(p, base))
    IN  IF ~o2.panic /\ Len(o2.buf) = iLen + 1 /\ o2.buf[iLen + 1] = 0
        THEN [o2 EXCEPT !.buf = SubSeq(@, 1, iTag - 1)]
        ELSE o2

enc_struct_message(o, p, base) ==
    LET iTag == Len(o.buf)
        o1 == AppendTag(o, p)
        iLen == Len(o1.buf)
        o2 == enc_len_struct(o1, p.sprop, At(p, base))
    IN  IF ~o2.panic /\ Len(o2.buf) = iLen + 1 /\ o2.buf[iLen + 1] = 0
        THEN [o2 EXCEPT !.buf = SubSeq(@, 1, iTag)]
        ELSE o2

enc_ptr_struct_message(o, p, base) ==
    LET structp == At(p, base)
    IN  IF structp = <<>> THEN o
        ELSE enc_len_struct(AppendTag(o, p), p.sprop, structp[1])

\* The packed encoders: the elements are encoded into a buffer of their own,
\* then the tag code, the length of that buffer and the buffer are appended.
RECURSIVE EncodeEach(_, _, _, _)
EncodeEach(o, p, xs, i) ==
    IF i > Len(xs) \/ o.panic THEN o ELSE EncodeEach(valEnc(o, p, xs[i]), p, xs, i + 1)

\* Packed writing the number of elements where the length in bytes belongs.
Packed_count(o, p, xs) ==
    LET buf == EncodeEach(NewBuffer, p, xs, 1)
    IN  [o EXCEPT !.buf = EncodeVarint(@ \o p.tagcode, FromNat(Len(xs))) \o buf.buf]

Packed(o, p, xs) ==
    LET buf == EncodeEach(NewBuffer, p, xs, 1)
    IN  IF buf.panic THEN [o EXCEPT !.panic = TRUE]
        ELSE [o EXCEPT !.buf = EncodeVarint(@ \o p.tagcode, FromNat(Len(buf.buf))) \o buf.buf]

\* The bool encoders write the element count as the length, then the elements.
PackedBool(o, p, s) ==
    LET o1 == [o EXCEPT !.buf = EncodeVarint(@ \o p.tagcode, FromNat(Len(s)))]
    IN  EncodeEach(o1, p, [i \in 1..Len(s) |-> FromNat(IF s[i] THEN 1 ELSE 0)], 1)

enc_slice_packed_bool(o, p, base) ==
    IF Len(At(p, base)) = 0 THEN o ELSE PackedBool(o, p, At(p, base))

enc_array_packed_bool(o, p, base) == PackedBool(o, p, SubSeq(At(p, base), 1, p.length))

enc_slice_byte(o, p, base) ==
    IF Len(At(p, base)) = 0 THEN o
    ELSE [o EXCEPT !.buf = EncodeRawBytes(@ \o p.tagcode, At(p, base))]

enc_array_byte(o, p, base) ==
    [o EXCEPT !.buf = EncodeRawBytes(@ \o p.tagcode, SubSeq(At(p, base), 1, p.length))]

\* enc_slice_packed_int32, and the int, int8, int16 and int64 ones.
enc_slice_packed_int32(o, p, base) ==
    LET s == At(p, base)
    IN  IF Len(s) = 0 THEN o ELSE Packed(o, p, [i \in 1..Len(s) |-> FromInt(s[i])])

\* enc_slice_packed_uint32, and the uint and uint16 ones.
enc_slice_packed_uint32(o, p, base) ==
    LET s == At(p, base)
    IN  IF Len(s) = 0 THEN o ELSE Packed(o, p, [i \in 1..Len(s) |-> FromNat(s[i])])

\* enc_slice_packed_int64 reads the elements as uint64: the 64 bits as they are.
enc_slice_packed_int64(o, p, base) ==
    LET s == At(p, base)
    IN  IF Len(s) = 0 THEN o ELSE Packed(o, p, [i \in 1..Len(s) |-> FromInt(s[i])])

\* enc_array_packed_int32, and the int8, int16 and int64 ones.
enc_array_packed_int32(o, p, base) ==
    Packed(o, p, [i \in 1..p.length |-> FromInt(At(p, base)[i])])

\* enc_array_packed_uint32, and the uint16 one.
enc_array_packed_uint32(o, p, base) ==
    Packed(o, p, [i \in 1..p.length |-> FromNat(At(p, base)[i])])

RECURSIVE EachString(_, _, _, _)
EachString(o, p, ss, i) ==
    IF i > Len(ss) THEN o
    ELSE EachString([o EXCEPT !.buf = EncodeStringBytes(@ \o p.tagcode, ss[i])], p, ss, i + 1)

\* enc_slice_string, and enc_slice_slice_byte (EncodeRawBytes writes the same).
enc_slice_string(o, p, base) == EachString(o, p, At(p, base), 1)

enc_array_string(o, p, base) == EachString(o, p, SubSeq(At(p, base), 1, p.length), 1)

\* The loops over the elements passing over a nil element.
RECURSIVE PtrStructElems_skipnil(_, _, _, _)
PtrStructElems_skipnil(o, p, s, i) ==
    IF i > Len(s) \/ o.panic THEN o
    ELSE IF s[i] = <<>> THEN PtrStructElems_skipnil(o, p, s, i + 1)
    ELSE IF p.isAppender
    THEN PtrStructElems_skipnil(encode_appender(o, p, s[i][1], TRUE).o, p, s, i + 1)
    ELSE IF p.isMarshaler
    THEN PtrStructElems_skipnil(MarshalOne(o, p, s[i][1], TRUE), p, s, i + 1)
    ELSE PtrStructElems_skipnil(enc_len_struct(AppendTag(o, p), p.sprop, s[i][1]), p, s, i + 1)

\* The loops of enc_slice_ptr_struct_message and enc_array_ptr_struct_message
\* over the elements s[i..]: a nil element ends the field with an error.
RECURSIVE PtrStructElems(_, _, _, _)
PtrStructElems(o, p, s, i) ==
    IF i > Len(s) \/ o.panic THEN o
    ELSE IF s[i] = <<>> THEN noteError(o, errRepeatedHasNil)
    ELSE IF p.isAppender
    THEN LET r == encode_appender(o, p, s[i][1], TRUE)
         IN  IF r.err # "nil" THEN r.o ELSE PtrStructElems(r.o, p, s, i + 1)
    ELSE IF p.isMarshaler
    THEN IF s[i][1].err THEN noteError(o, ErrMarshaler)
         ELSE PtrStructElems(MarshalOne(o, p, s[i][1], TRUE), p, s, i + 1)
    ELSE PtrStructElems(enc_len_struct(AppendTag(o, p), p.sprop, s[i][1]), p, s, i + 1)

enc_slice_ptr_struct_message(o, p, base) == PtrStructElems(o, p, At(p, base), 1)

enc_array_ptr_struct_message(o, p, base) ==
    PtrStructElems(o, p, SubSeq(At(p, base), 1, p.length), 1)

\* enc_struct_messages passing over the elements whose body is empty.
RECURSIVE enc_struct_messages_elide(_, _, _, _)
enc_struct_messages_elide(o, p, s, i) ==
    IF i > Len(s) \/ o.panic THEN o
    ELSE IF p.isAppender
    THEN LET r == encode_appender(o, p, s[i], FALSE)
         IN  IF r.err # "nil" THEN r.o ELSE enc_struct_messages_elide(r.o, p, s, i + 1)
    ELSE IF p.isMarshaler
    THEN IF s[i].err THEN noteError(o, ErrMarshaler)
         ELSE enc_struct_messages_elide(MarshalOne(o, p, s[i], FALSE), p, s, i + 1)
    ELSE enc_struct_messages_elide(enc_struct_message(o, p, <<s[i]>>), p, s, i + 1)

\* enc_struct_messages: n struct messages in a line in memory, s[i..].
RECURSIVE enc_struct_messages(_, _, _, _)
enc_struct_messages(o, p, s, i) ==
    IF i > Len(s) \/ o.panic THEN o
    ELSE IF p.isAppender
    THEN LET r == encode_appender(o, p, s[i], TRUE)
         IN  IF r.err # "nil" THEN r.o ELSE enc_struct_messages(r.o, p, s, i + 1)
    ELSE IF p.isMarshaler
    THEN IF s[i].err THEN noteError(o, ErrMarshaler)
         ELSE enc_struct_messages(MarshalOne(o, p, s[i], TRUE), p, s, i + 1)
    ELSE enc_struct_messages(enc_len_struct(AppendTag(o, p), p.sprop, s[i]), p, s, i + 1)

enc_slice_struct_message(o, p, base) ==
    IF Len(At(p, base)) = 0 THEN o ELSE enc_struct_messages(o, p, At(p, base), 1)

\* enc_array_struct_message, and enc_array_marshaler and enc_array_appender.
enc_array_struct_message(o, p, base) ==
    enc_struct_messages(o, p, SubSeq(At(p, base), 1, p.length), 1)

\* MapEntries leaving out a key or a value that is the zero value of its type.
RECURSIVE MapEntries_elide(_, _, _, _)
MapEntries_elide(o, p, v, i) ==
    IF i > Len(v) \/ o.panic THEN o
    ELSE LET kp == p.mkeyprop[1]
             vp == p.mvalprop[1]
             vk == Elem(p.mtype[1]).kind
             keybase == << (IF v[i][1] = (IF p.mtype[1].key[1].kind = "string" THEN <<>> ELSE 0) THEN <<>> ELSE <<v[i][1]>>) >>
             valbase == IF vk # "ptr" /\ vk # "slice"
                        THEN << (IF v[i][2] = (IF vk = "string" THEN <<>> ELSE 0) THEN <<>> ELSE <<v[i][2]>>) >>
                        ELSE <<v[i][2]>>
         IN  MapEntries_elide(enc_len_thing(AppendTag(o, p),
                            LAMBDA b : LET b1 == CallEnc(b, kp, keybase)
                                       IN  IF b1.panic THEN b1 ELSE CallEnc(b1, vp, valbase)),
                        p, v, i + 1)

\* A map is held as its key/value pairs in the order the iteration yields them.
\* The key and value encoders are handed scratch placeholders: a pointer to
\* the copy of the key, and of the value unless its type is a pointer or a slice.
RECURSIVE MapEntries(_, _, _, _)
MapEntries(o, p, v, i) ==
    IF i > Len(v) \/ o.panic THEN o
    ELSE LET kp == p.mkeyprop[1]
             vp == p.mvalprop[1]
             vk == Elem(p.mtype[1]).kind
             keybase == << <<v[i][1]>> >>
             valbase == IF vk # "ptr" /\ vk # "slice" THEN << <<v[i][2]>> >> ELSE <<v[i][2]>>
         IN  MapEntries(enc_len_thing(AppendTag(o, p),
                            LAMBDA b : LET b1 == CallEnc(b, kp, keybase)
                                       IN  IF b1.panic THEN b1 ELSE CallEnc(b1, vp, valbase)),
                        p, v, i + 1)

enc_new_map(o, p, base) ==
    IF Len(At(p, base)) = 0 THEN o ELSE MapEntries(o, p, At(p, base), 1)

enc_nothing(o, p, base) == o

\* EncodeTimestamp leaving out the seconds when 0 and the nanoseconds when 0.
EncodeTimestamp_elide(o, ts) ==
    LET b1 == IF ts.unix = FromNat(0) THEN o.buf ELSE EncodeVarint(o.buf \o <<8>>, ts.unix)
    IN  [o EXCEPT !.buf = IF ts.nsec = 0 THEN b1 ELSE EncodeVarint(b1 \o <<16>>, FromInt(ts.nsec))]

\* A time.Time is held as [unix |-> its Unix seconds (an int64, as uint64),
\* nsec |-> the nanoseconds within the second].
EncodeTimestamp(o, ts) ==
    [o EXCEPT !.buf = EncodeVarint(EncodeVarint(@ \o <<8>>, ts.unix) \o <<16>>,
                                   FromInt(ts.nsec))]

enc_time_Time(o, p, base) == EncodeTimestamp(o, At(p, base))

\* A time.Duration is held as its int64 of nanoseconds, as a uint64.
enc_Duration(o, p, d) ==
    Then(QuoBillion(d), LAMBDA secs :
    Then(Sub64(d, MulBillion(secs)), LAMBDA nanos :
        LET b1 == (o.buf \o p.tagcode) \o <<0>>
            body_start == Len(b1)
            b2 == IF secs # FromNat(0) THEN EncodeVarint(b1 \o <<8>>, secs) ELSE b1
            b3 == IF nanos # FromNat(0) THEN EncodeVarint(b2 \o <<16>>, nanos) ELSE b2
        IN  [o EXCEPT !.buf = [b3 EXCEPT ![body_start] = (Len(b3) - body_start) % 256]]))

enc_time_Duration(o, p, base) ==
    IF At(p, base) # FromNat(0) THEN enc_Duration(o, p, At(p, base)) ELSE o

\* enc_ptr_time_Duration writing whatever a non-nil pointer points to.
enc_ptr_time_Duration_always(o, p, base) ==
    LET d == At(p, base)
    IN  IF d # <<>> THEN enc_Duration(o, p, d[1]) ELSE o

enc_ptr_time_Duration(o, p, base) ==
    LET d == At(p, base)
    IN  IF d # <<>> /\ d[1] # FromNat(0) THEN enc_Duration(o, p, d[1]) ELSE o

\* Go's integer division: the quotient is truncated toward zero.
Quo(a, b) == IF a >= 0 THEN a \div b ELSE 0 - ((0 - a) \div b)

\* EncodeNSecTimestamp, of an int64 of nanoseconds since the Unix epoch.
EncodeNSecTimestamp(o, ts) ==
    LET secs == Quo(ts, 1000000000)
        nanos == ts - secs * 1000000000
    IN  [o EXCEPT !.buf = EncodeVarint(EncodeVarint(@ \o <<8>>, FromInt(secs)) \o <<16>>,
                                       FromInt(nanos))]

\* time.Unix(sec, nsec) of the standard library: the Time sec seconds and
\* nsec nanoseconds after the epoch, nsec being brought into [0, 999999999].
TimeUnix(sec, nsec) ==
    [unix |-> FromInt(sec + (nsec \div 1000000000)), nsec |-> nsec % 1000000000]

\* p.enc(o, p, base)
CallEnc(o, p, base) ==
    CASE p.enc = "enc_bool" -> enc_bool(o, p, base)
      [] p.enc = "enc_ptr_bool" -> enc_ptr_bool(o, p, base)
      [] p.enc \in {"enc_int", "enc_int8", "enc_int16", "enc_int32", "enc_int64"} ->
            enc_int32(o, p, base)
      [] p.enc \in {"enc_uint", "enc_uint8", "enc_uint16", "enc_uint32"} ->
            enc_uint32(o, p, base)
      [] p.enc \in {"enc_ptr_int32", "enc_ptr_int64"} -> enc_ptr_int32(o, p, base)
      [] p.enc = "enc_ptr_uint32" -> enc_ptr_uint32(o, p, base)
      [] p.enc = "enc_string" -> enc_string(o, p, base)
      [] p.enc = "enc_ptr_string" -> enc_ptr_string(o, p, base)
      [] p.enc = "enc_marshaler" -> enc_marshaler(o, p, base)
      [] p.enc = "enc_ptr_marshaler" -> enc_ptr_marshaler(o, p, base)
      [] p.enc = "enc_appender" -> enc_appender(o, p, base)
      [] p.enc = "enc_ptr_appender" -> enc_ptr_appender(o, p, base)
      [] p.enc = "enc_struct_message" -> enc_struct_message(o, p, base)
      [] p.enc = "enc_ptr_struct_message" -> enc_ptr_struct_message(o, p, base)
      [] p.enc = "enc_slice_packed_bool" -> enc_slice_packed_bool(o, p, base)
      [] p.enc = "enc_array_packed_bool" -> enc_array_packed_bool(o, p, base)
      [] p.enc = "enc_slice_byte" -> enc_slice_byte(o, p, base)
      [] p.enc = "enc_array_byte" -> enc_array_byte(o, p, base)
      [] p.enc \in {"enc_slice_packed_int", "enc_slice_packed_int8", "enc_slice_packed_int16",
                    "enc_slice_packed_int32"} -> enc_slice_packed_int32(o, p, base)
      [] p.enc \in {"enc_slice_packed_uint", "enc_slice_packed_uint16",
                    "enc_slice_packed_uint32"} -> enc_slice_packed_uint32(o, p, base)
      [] p.enc = "enc_slice_packed_int64" -> enc_slice_packed_int64(o, p, base)
      [] p.enc \in {"enc_array_packed_int32", "enc_array_packed_int64"} ->
            enc_array_packed_int32(o, p, base)
      [] p.enc = "enc_array_packed_uint32" -> enc_array_packed_uint32(o, p, base)
      [] p.enc \in {"enc_slice_string", "enc_slice_slice_byte"} -> enc_slice_string(o, p, base)
      [] p.enc = "enc_array_string" -> enc_array_string(o, p, base)
      [] p.enc = "enc_slice_ptr_struct_message" -> enc_slice_ptr_struct_message(o, p, base)
      [] p.enc = "enc_array_ptr_struct_message" -> enc_array_ptr_struct_message(o, p, base)
      [] p.enc = "enc_slice_struct_message" -> enc_slice_struct_message(o, p, base)
      [] p.enc = "enc_array_struct_message" -> enc_array_struct_message(o, p, base)
      [] p.enc = "enc_new_map" -> enc_new_map(o, p, base)
      [] p.enc = "enc_nothing" -> enc_nothing(o, p, base)
      [] p.enc = "enc_time_Time" -> enc_time_Time(o, p, base)
      [] OTHER -> [o EXCEPT !.panic = TRUE]

\* Encode a struct: its fields in the schema's encode order.
RECURSIVE EncFields(_, _, _, _)
EncFields(o, ps, base, i) ==
    IF i > Len(ps) \/ o.panic THEN o
    ELSE EncFields(CallEnc(o, ps[i], base), ps, base, i + 1)

enc_struct(o, prop, base) == EncFields(o, props(heap[prop]), base, 1)

\* ------------------------------------------------- the schema compiler

\* The StructProperties the program starts with: init() puts the schema of
\* time.Time into propertiesMap.  t (the type compiled) and done (the
\* compilation has returned) are not fields of the Go struct: they record
\* what the schema is of and how far its construction is.
TimeProperties ==
    [t |-> TimeType, done |-> TRUE, order |-> <<0>>,
     Prop |-> <<[ZeroProperties EXCEPT !.Name = "time.Time", !.enc = "enc_time_Time"]>>]

\* A lookup that finds no type in the map.
Lookup_miss(pm, t) == [prop |-> 0, ok |-> FALSE]

\* prop, ok := propertiesMap[t]
Lookup(pm, t) == [prop |-> pm[t], ok |-> pm[t] # 0]

\* new(StructProperties), with Prop and order made of nf zero elements.
NewStructProperties(t) ==
    [t |-> t, done |-> FALSE, order |-> [k \in 1..NumField(t) |-> 0],
     Prop |-> [k \in 1..NumField(t) |-> ZeroProperties]]

\* Less that never finds an element less than another: the sort moves nothing.
Less_never(sp, i, j) == FALSE

Less(sp, i, j) == sp.Prop[sp.order[i + 1] + 1].Tag < sp.Prop[sp.order[j + 1] + 1].Tag

Swap(sp, i, j) ==
    [sp EXCEPT !.order = [@ EXCEPT ![i + 1] = sp.order[j + 1], ![j + 1] = sp.order[i + 1]]]

\* sort.Sort(prop): the insertion sort package sort runs on fewer than twelve elements.
RECURSIVE SortInner(_, _)
SortInner(sp, j) ==
    IF j > 0 /\ Less(sp, j, j - 1) THEN SortInner(Swap(sp, j, j - 1), j - 1) ELSE sp

RECURSIVE SortOuter(_, _)
SortOuter(sp, i) == IF i < Len(sp.order) THEN SortOuter(SortInner(sp, i), i + 1) ELSE sp

Sort(sp) == SortOuter(sp, 1)

\* Whether the tag lets init reach setEnc.
Parses(tag) ==
    /\ tag # <<>>
    /\ LET r == Parse(ZeroProperties, tag) IN ~r.skip /\ r.err = "nil"

\* The struct type setEnc calls getPropertiesLocked for while it prepares field fd ("": none).
NestedType(fd) == IF Parses(fd.protobuf) THEN StructTypeOf(fd.Type) ELSE ""

\* A duplicate check that finds no tag in seen.
Duplicate_unseen(seen, tag) == FALSE

\* The tag is already in seen.
Duplicate(seen, tag) == tag \in seen

\* ------------------------------------------------------------ bounds

\* The number of goroutines.
NProcs == 2

\* The number of calls the goroutines make in all.
MaxCalls == 2

\* The longest packed sequence.
MaxLen == 3

\* The longest sequence of records.
MaxElems == 3

Procs == 1..NProcs

\* ------------------------------------------------------------ values

SeqsUpTo(S, n) == UNION {[1..k -> S] : k \in 0..n}

\* The zero time.Time (January 1, year 1 UTC): Unix() is -62135596800.
ZeroTime == <<[unix |-> <<0, 18, 56, 67, 24, 126, 127, 127, 127, 1>>, nsec |-> 0]>>

Times == {ZeroTime, <<[unix |-> FromNat(0), nsec |-> 0]>>, <<[unix |-> FromNat(1), nsec |-> 5]>>}

\* What the MarshalProtobuf3 of a value can return.
Marshalers ==
    {[data |-> <<>>, err |-> FALSE], [data |-> << <<8, 1>> >>, err |-> FALSE],
     [data |-> << <<8, 1>> >>, err |-> TRUE]}

\* What the AppendProtobuf3 of a value can do.
Appenders ==
    {[app |-> <<>>, err |-> FALSE, short |-> FALSE], [app |-> <<8, 1>>, err |-> FALSE, short |-> FALSE],
     [app |-> <<>>, err |-> TRUE, short |-> FALSE], [app |-> <<>>, err |-> FALSE, short |-> TRUE]}

\* A pointer is nil (<<>>) or holds what it points to.
Ptrs(S) == {<<>>} \cup {<<x>> : x \in S}

InnerMsgs == {<<i>> : i \in {0, 1}}

ArrMsgs == {<<ab, <<>> >> : ab \in [1..2 -> BOOLEAN]}

\* The values of the struct types Marshal is called with: a struct is the
\* tuple of its fields' values.
Values(t) ==
    CASE t = "InnerMsg" -> {<<i>> : i \in {0, 1, 300, -1}}
      [] t = "Msg" -> {<<name, flag, cache, n>> : name \in {<<>>, <<97>>}, flag \in BOOLEAN,
                                                    cache \in {0, 7}, n \in {0, 5}}
      [] t = "OptMsg" -> {<<pi, ps>> : pi \in Ptrs({0, -2}), ps \in Ptrs({<<>>, <<97>>})}
      [] t = "NestedMsg" -> {<<b, second, first>> : b \in BOOLEAN, second \in InnerMsgs,
                                                      first \in Ptrs(InnerMsgs)}
      [] t = "RepMsg" -> {<<many, b>> : many \in SeqsUpTo(Ptrs(InnerMsgs), MaxElems), b \in BOOLEAN}
      [] t = "RepArrMsg" -> {<<more>> : more \in [1..2 -> Ptrs(InnerMsgs)]}
      [] t = "RepMMsg" -> {<<ms>> : ms \in SeqsUpTo(Ptrs(Marshalers), MaxElems)}
      [] t = "RepAMsg" -> {<<as>> : as \in SeqsUpTo(Ptrs(Appenders), MaxElems)}
      [] t = "PackedMsg" -> {<<b, si32>> : b \in BOOLEAN, si32 \in SeqsUpTo({1, 300, 3}, MaxLen)}
      [] t = "PackedZMsg" -> {<<si64>> : si64 \in SeqsUpTo({-1, 1}, MaxLen)}
      [] t = "PackedFMsg" -> {<<su32>> : su32 \in SeqsUpTo({1, 300}, MaxLen)}
      [] t = "ArrMsg" -> ArrMsgs
      [] t = "PtrArrMsg" -> {<<pa>> : pa \in Ptrs(ArrMsgs)}
      [] t = "TimeMsg" -> {<<ts>> : ts \in Times}
      [] t = "MapMsg" -> {<<m>> : m \in {<<>>, << << <<97>>, 1>> >>,
                                         << << <<97>>, 0>>, << <<>>, 5>> >>}}
      [] t = "DupMsg" -> {<<a, b>> : a \in {0, 1}, b \in BOOLEAN}
      [] t = "RecursiveTypeMsg" -> {<<self, b>> : self \in Ptrs({<< <<>>, FALSE>>, << <<>>, TRUE>>}),
                                                   b \in BOOLEAN}
      [] t = "ChainA" -> {<<b, next>> : b \in BOOLEAN,
                                        next \in Ptrs({<<backs>> : backs \in
                                            SeqsUpTo({<< <<TRUE, <<>> >> >>, << <<FALSE, <<>> >> >>}, 2)})}
      [] t = "ChainB" -> {<<backs>> : backs \in {<<>>, << << <<TRUE, << << <<>> >> >> >> >> >>}}
      [] t = "NoTagMsg" -> {<<n, u>> : n \in {0, 5}, u \in {0, 7}}
      [] t = "NoEncMsg" -> {<<b, ss>> : b \in BOOLEAN, ss \in {<<>>, << <<1>> >>}}
      [] t = "AMsg" -> {<<a, pa>> : a \in Appenders, pa \in Ptrs(Appenders)}
      [] t = "DupOuterMsg" -> {<<n, d>> : n \in {0, 1}, d \in {<<1, TRUE>>}}
      [] t = "MapBytesMsg" -> {<<mb>> : mb \in {<<>>, << <<0, <<>> >> >>, << <<5, <<7>> >>, <<-1, <<>> >> >>}}
      [] t = "RepValMsg" -> {<<vs, va, pz>> : vs \in SeqsUpTo(InnerMsgs, 2), va \in [1..2 -> InnerMsgs],
                                                pz \in SeqsUpTo({<<x>> : x \in ArrMsgs}, 1)}
      [] t = "RepSelfMsg" -> {<<as, ms>> : as \in SeqsUpTo(Appenders, 2), ms \in [1..2 -> Marshalers]}
      [] t = "M" -> Marshalers
      [] OTHER -> {}

\* The types of the arguments that are not pointers to a struct: a struct
\* passed by value, a number, a pointer to a number.
OtherTypes == {StructT("InnerMsg"), Scalar("int32"), PtrTo(Scalar("int32"))}

\* What calling MarshalProtobuf3 yields: what the value returns or, through a
\* nil pointer, whatever the method does with a nil receiver, a panic included.
MarshalProtobuf3(val) ==
    IF val = <<>>
    THEN {[data |-> <<>>, err |-> FALSE, panic |-> TRUE]}
         \cup {[data |-> m.data, err |-> m.err, panic |-> FALSE] : m \in Marshalers}
    ELSE {[data |-> val[1].data, err |-> val[1].err, panic |-> FALSE]}

\* ------------------------------------------------------------ the program

\* No argument (the nil interface), no call, nothing returned.
NoPb == [kind |-> "nil", t |-> Scalar("invalid"), val |-> <<>>]
NoCall == [op |-> "none", t |-> "", pb |-> NoPb]
NoResult == [bytes |-> <<>>, err |-> "nil", buf |-> <<>>]

\* A pointer to a struct of type t: nil (val = <<>>) or to the value val[1].
PtrPb(t, val) == [kind |-> "ptr", t |-> PtrTo(StructT(t)), val |-> val]

Init ==
    /\ propertiesMap = [t \in TypeNames |-> IF t = TimeType THEN 1 ELSE 0]
    /\ heap = <<TimeProperties>>
    /\ mu = [writer |-> 0, readers |-> {}]
    /\ pc = [g \in Procs |-> "idle"]
    /\ call = [g \in Procs |-> NoCall]
    /\ stack = [g \in Procs |-> <<>>]
    /\ sprop = [g \in Procs |-> 0]
    /\ result = [g \in Procs |-> NoResult]
    /\ returned = [t \in TypeNames |-> {}]
    /\ ncalls = 0

\* Marshal returning the Buffer's bytes along with the error.
Marshal_partial(o, err) == [bytes |-> o.buf, err |-> err, buf |-> o.buf]

\* Marshal, once buf.Marshal(pb) has returned err and left the Buffer o:
\* the bytes and the error returned (buf: the released Buffer's content).
Marshal(o, err) ==
    IF err # "nil" THEN [bytes |-> <<>>, err |-> err, buf |-> o.buf]
    ELSE [bytes |-> o.buf, err |-> "nil", buf |-> o.buf]

\* Buffer.Marshal's "unpack the interface and sanity check": the error it
\* returns ("nil": none, it goes on to GetProperties).
SanityCheck(pb) ==
    IF pb.kind = "nil" THEN ErrNil
    ELSE IF pb.t.kind # "ptr" \/ Elem(pb.t).kind # "struct" THEN ErrNotPointerToStruct
    ELSE IF pb.val = <<>> THEN ErrNil
    ELSE "nil"

\* pb.(Marshaler) succeeds.
CanMarshalItself(pb) == pb.kind # "nil" /\ isMarshaler(pb.t)

\* Buffer.Marshal when the argument marshals itself.
MarshalItself(m) ==
    LET o1 == IF m.err THEN noteError(NewBuffer, ErrMarshaler) ELSE NewBuffer
    IN  [o1 EXCEPT !.buf = @ \o (IF m.data = <<>> THEN <<>> ELSE m.data[1])]

\* buf.Marshal(pb) in goroutine g, up to its call of GetProperties, and
\* Marshal's return when it does not get that far.
BufferMarshal(g, pb) ==
    IF CanMarshalItself(pb)
    THEN \E m \in MarshalProtobuf3(pb.val) :
            /\ call' = [call EXCEPT ![g] = [op |-> "Marshal", t |-> "", pb |-> pb]]
            /\ pc' = [pc EXCEPT ![g] = IF m.panic THEN "panicked" ELSE "done"]
            /\ result' = [result EXCEPT ![g] =
                   IF m.panic THEN @ ELSE Marshal(MarshalItself(m), MarshalItself(m).err)]
    ELSE IF SanityCheck(pb) # "nil"
    THEN /\ call' = [call EXCEPT ![g] = [op |-> "Marshal", t |-> "", pb |-> pb]]
         /\ pc' = [pc EXCEPT ![g] = "done"]
         /\ result' = [result EXCEPT ![g] = Marshal(NewBuffer, SanityCheck(pb))]
    ELSE /\ call' = [call EXCEPT ![g] = [op |-> "Marshal", t |-> Elem(pb.t).name, pb |-> pb]]
         /\ pc' = [pc EXCEPT ![g] = "RLock"]
         /\ UNCHANGED result

\* Goroutine g calls Marshal(pb).
MarshalCall(g, pb) ==
    /\ pc[g] = "idle"
    /\ ncalls < MaxCalls
    /\ ncalls' = ncalls + 1
    /\ BufferMarshal(g, pb)
    /\ UNCHANGED <<propertiesMap, heap, mu, stack, sprop, returned>>

\* Goroutine g calls Marshal with the argument drawn for it.
MarshalDrawn(g) ==
    /\ pc[g] = "drawn"
    /\ BufferMarshal(g, call[g].pb)
    /\ UNCHANGED <<propertiesMap, heap, mu, stack, sprop, returned, ncalls>>

\* Goroutine g calls GetProperties(typ): up to propertiesMu.RLock().
GetPropertiesCall(g, typ) ==
    /\ pc[g] = "idle"
    /\ ncalls < MaxCalls
    /\ ncalls' = ncalls + 1
    /\ LET t == IF typ.kind = "ptr" THEN Elem(typ) ELSE typ
       IN  IF t.kind # "struct"
           THEN /\ call' = [call EXCEPT ![g] = [op |-> "GetProperties", t |-> "", pb |-> NoPb]]
                /\ pc' = [pc EXCEPT ![g] = "panicked"]
           ELSE /\ call' = [call EXCEPT ![g] = [op |-> "GetProperties", t |-> t.name, pb |-> NoPb]]
                /\ pc' = [pc EXCEPT ![g] = "RLock"]
    /\ UNCHANGED <<propertiesMap, heap, mu, stack, sprop, result, returned>>

\* A read lock granted whoever holds the write lock.
CanRLock_always(g) == TRUE

\* propertiesMu.RLock() is granted when no goroutine holds the write lock.
CanRLock(g) == mu.writer = 0

\* propertiesMu.Lock() is granted when no goroutine holds the lock at all.
CanLock(g) == mu.writer = 0 /\ mu.readers = {}

\* propertiesMu.RLock(); sprop, ok := propertiesMap[t]
RLock(g) ==
    /\ pc[g] = "RLock"
    /\ CanRLock(g)
    /\ mu' = [mu EXCEPT !.readers = @ \cup {g}]
    /\ sprop' = [sprop EXCEPT ![g] = Lookup(propertiesMap, call[g].t).prop]
    /\ pc' = [pc EXCEPT ![g] = "RUnlock"]
    /\ UNCHANGED <<propertiesMap, heap, call, stack, result, returned, ncalls>>

\* GetProperties returns sp to goroutine g: to its caller, or to Buffer.Marshal.
Return(g, sp) ==
    /\ returned' = [returned EXCEPT ![call[g].t] = @ \cup {sp}]
    /\ pc' = [pc EXCEPT ![g] = IF call[g].op = "Marshal" THEN "encode" ELSE "done"]

\* propertiesMu.RUnlock(); if ok { return sprop }
RUnlock(g) ==
    /\ pc[g] = "RUnlock"
    /\ mu' = [mu EXCEPT !.readers = @ \ {g}]
    /\ IF sprop[g] # 0 THEN Return(g, sprop[g])
       ELSE pc' = [pc EXCEPT ![g] = "Lock"] /\ UNCHANGED returned
    /\ UNCHANGED <<propertiesMap, heap, call, stack, sprop, result, ncalls>>

\* An entry that builds the new StructProperties without putting it into the map.
Enter_unmapped(g, t) ==
    /\ heap' = Append(heap, NewStructProperties(t))
    /\ UNCHANGED propertiesMap
    /\ stack' = [stack EXCEPT ![g] =
           Append(@, [t |-> t, prop |-> Len(heap) + 1, i |-> 0, j |-> 0, seen |-> {}])]

\* The entry of getPropertiesLocked(t) for a type the map does not hold: the
\* new StructProperties goes into the map before its fields are built.
Enter(g, t) ==
    /\ heap' = Append(heap, NewStructProperties(t))
    /\ propertiesMap' = [propertiesMap EXCEPT ![t] = Len(heap) + 1]
    /\ stack' = [stack EXCEPT ![g] =
           Append(@, [t |-> t, prop |-> Len(heap) + 1, i |-> 0, j |-> 0, seen |-> {}])]

\* propertiesMu.Lock(); sprop = getPropertiesLocked(t), up to its first field.
Lock(g) ==
    /\ pc[g] = "Lock"
    /\ CanLock(g)
    /\ mu' = [mu EXCEPT !.writer = g]
    /\ IF Lookup(propertiesMap, call[g].t).ok
       THEN /\ sprop' = [sprop EXCEPT ![g] = Lookup(propertiesMap, call[g].t).prop]
            /\ pc' = [pc EXCEPT ![g] = "Unlock"]
            /\ UNCHANGED <<propertiesMap, heap, stack>>
       ELSE /\ Enter(g, call[g].t)
            /\ pc' = [pc EXCEPT ![g] = "compile"]
            /\ UNCHANGED sprop
    /\ UNCHANGED <<call, result, returned, ncalls>>

\* The innermost getPropertiesLocked of goroutine g and the field it is at.
Top(g) == stack[g][Len(stack[g])]
AtField(g) == TypeDecl[Top(g).t].fields[Top(g).i + 1]

\* The loop reaches a field whose setEnc calls getPropertiesLocked for a
\* struct type the map does not hold: that call begins.
Nested(g) ==
    /\ pc[g] = "compile"
    /\ Top(g).i < NumField(Top(g).t)
    /\ NestedType(AtField(g)) # ""
    /\ ~Lookup(propertiesMap, NestedType(AtField(g))).ok
    /\ Enter(g, NestedType(AtField(g)))
    /\ UNCHANGED <<mu, pc, call, sprop, result, returned, ncalls>>

\* One turn of the loop over the fields: init, then the duplicate check and
\* the entry in order.  A duplicate tag panics: the goroutine leaves
\* getPropertiesLocked and GetProperties with propertiesMu still locked.
FieldStep(g) ==
    /\ pc[g] = "compile"
    /\ Top(g).i < NumField(Top(g).t)
    /\ NestedType(AtField(g)) # "" => Lookup(propertiesMap, NestedType(AtField(g))).ok
    /\ LET fr == Top(g)
           fd == AtField(g)
           f == <<[Index |-> fr.i, protobuf_key |-> fd.protobuf_key, protobuf_val |-> fd.protobuf_val]>>
           r == init(heap[fr.prop].Prop[fr.i + 1], fd.Type, fd.Name, fd.protobuf, f, propertiesMap)
           built == [heap EXCEPT ![fr.prop].Prop[fr.i + 1] = r.p]
       IN  IF r.err # "nil" \/ r.skip
           THEN /\ heap' = built
                /\ stack' = [stack EXCEPT ![g][Len(stack[g])].i = @ + 1]
                /\ UNCHANGED pc
           ELSE IF Duplicate(fr.seen, r.p.Tag)
           THEN /\ heap' = built
                /\ stack' = [stack EXCEPT ![g] = <<>>]
                /\ pc' = [pc EXCEPT ![g] = "panicked"]
           ELSE /\ heap' = [built EXCEPT ![fr.prop].order[fr.j + 1] = fr.i]
                /\ stack' = [stack EXCEPT ![g][Len(stack[g])] =
                       [fr EXCEPT !.i = @ + 1, !.j = @ + 1, !.seen = @ \cup {r.p.Tag}]]
                /\ UNCHANGED pc
    /\ UNCHANGED <<propertiesMap, mu, call, sprop, result, returned, ncalls>>

\* After the last field: order is cut to the fields retained and sorted, and
\* getPropertiesLocked returns, to setEnc or to GetProperties.
Finish(g) ==
    /\ pc[g] = "compile"
    /\ Top(g).i = NumField(Top(g).t)
    /\ LET fr == Top(g)
           sp == heap[fr.prop]
       IN  /\ heap' = [heap EXCEPT ![fr.prop] =
                  [Sort([sp EXCEPT !.order = SubSeq(@, 1, fr.j)]) EXCEPT !.done = TRUE]]
           /\ stack' = [stack EXCEPT ![g] = SubSeq(@, 1, Len(@) - 1)]
           /\ IF Len(stack[g]) = 1
              THEN /\ sprop' = [sprop EXCEPT ![g] = fr.prop]
                   /\ pc' = [pc EXCEPT ![g] = "Unlock"]
              ELSE UNCHANGED <<sprop, pc>>
    /\ UNCHANGED <<propertiesMap, mu, call, result, returned, ncalls>>

\* propertiesMu.Unlock(); return sprop
Unlock(g) ==
    /\ pc[g] = "Unlock"
    /\ mu' = [mu EXCEPT !.writer = 0]
    /\ Return(g, sprop[g])
    /\ UNCHANGED <<propertiesMap, heap, call, stack, sprop, result, ncalls>>

\* o.enc_struct(prop, base); return o.err, and Marshal's return.  A call
\* through a nil encoder panics.
Encode(g) ==
    /\ pc[g] = "encode"
    /\ LET o == enc_struct(NewBuffer, sprop[g], call[g].pb.val[1])
       IN  IF o.panic
           THEN pc' = [pc EXCEPT ![g] = "panicked"] /\ UNCHANGED result
           ELSE /\ pc' = [pc EXCEPT ![g] = "done"]
                /\ result' = [result EXCEPT ![g] = Marshal(o, o.err)]
    /\ UNCHANGED <<propertiesMap, heap, mu, call, stack, sprop, returned, ncalls>>

\* The caller has what the call returned (or has recovered from the panic)
\* and is free to call again.
Done(g) ==
    /\ pc[g] \in {"done", "panicked"}
    /\ pc' = [pc EXCEPT ![g] = "idle"]
    /\ call' = [call EXCEPT ![g] = NoCall]
    /\ sprop' = [sprop EXCEPT ![g] = 0]
    /\ result' = [result EXCEPT ![g] = NoResult]
    /\ UNCHANGED <<propertiesMap, heap, mu, stack, returned, ncalls>>

\* ------------------------------------------------------- specifications

\* The program with its goroutines: each calls GetProperties and Marshal, in
\* any order and any interleaving.
CallTypes ==
    {PtrTo(StructT("NestedMsg")), StructT("RecursiveTypeMsg"), StructT("DupMsg"), Scalar("int32")}

CallValues(t) ==
    CASE t = "NestedMsg" -> {<<TRUE, <<0>>, << <<1>> >> >>}
      [] t = "DupMsg" -> {<<1, TRUE>>}
      [] OTHER -> {}

Next ==
    \E g \in Procs :
        \/ \E typ \in CallTypes : GetPropertiesCall(g, typ)
        \/ \E t \in {"NestedMsg", "DupMsg"} :
              \E v \in CallValues(t) : MarshalCall(g, PtrPb(t, <<v>>))
        \/ RLock(g)
        \/ RUnlock(g)
        \/ Lock(g)
        \/ Nested(g)
        \/ FieldStep(g)
        \/ Finish(g)
        \/ Unlock(g)
        \/ Encode(g)
        \/ Done(g)

Spec == Init /\ [][Next]_vars

\* One call of Marshal, by goroutine 1, with an argument drawn from every
\* kind there is: pointers to the values of the struct types and nil pointers
\* to them, the nil interface, and arguments that are not pointers to a struct.
TopTypes == DeclaredTypes \ {"A"}

Drawn(pb) ==
    /\ pc = [g \in Procs |-> IF g = 1 THEN "drawn" ELSE "idle"]
    /\ call = [g \in Procs |-> IF g = 1 THEN [op |-> "Marshal", t |-> "", pb |-> pb] ELSE NoCall]

InitEnc ==
    /\ propertiesMap = [t \in TypeNames |-> IF t = TimeType THEN 1 ELSE 0]
    /\ heap = <<TimeProperties>>
    /\ mu = [writer |-> 0, readers |-> {}]
    /\ stack = [g \in Procs |-> <<>>]
    /\ sprop = [g \in Procs |-> 0]
    /\ result = [g \in Procs |-> NoResult]
    /\ returned = [t \in TypeNames |-> {}]
    /\ ncalls = 0
    /\ \/ \E t \in TopTypes : \E val \in Ptrs(Values(t)) : Drawn(PtrPb(t, val))
       \/ Drawn(NoPb)
       \/ \E typ \in OtherTypes : Drawn([kind |-> "value", t |-> typ, val |-> <<>>])

NextEnc ==
    \/ MarshalDrawn(1)
    \/ RLock(1)
    \/ RUnlock(1)
    \/ Lock(1)
    \/ Nested(1)
    \/ FieldStep(1)
    \/ Finish(1)
    \/ Unlock(1)
    \/ Encode(1)
    \/ Done(1)

SpecEnc == InitEnc /\ [][NextEnc]_vars

\* ------------------------------------------- the encoders, called directly

\* The encoders of one field and the exported writers, each applied once to
\* arguments drawn for it: goroutine 1 holds the operation and its arguments
\* in call, and leaves what the operation produced in result.
Input(op, arg) ==
    /\ pc = [g \in Procs |-> IF g = 1 THEN "input" ELSE "idle"]
    /\ call = [g \in Procs |-> IF g = 1 THEN [op |-> op, t |-> "", pb |-> arg] ELSE NoCall]

\* The element kinds setEnc gives an array a packed encoder for, the wire
\* keywords Parse knows, and the elements drawn of each kind (a float is
\* held as its bits).
ElemKinds == {"bool", "int32", "uint32", "int64", "uint64", "uint8", "float32", "float64"}

WireKeywords == {"varint", "zigzag32", "zigzag64", "fixed32", "fixed64", "bytes"}

ElemValues(k) ==
    IF k = "bool" THEN BOOLEAN
    ELSE IF k \in {"int32", "int64"} THEN {0, 1, 300, -1}
    ELSE {0, 1, 200}

\* The descriptor init builds for the only field (at offset 0) of a struct,
\* of type typ and with the `protobuf` tag given.
FieldProperties(typ, tag) ==
    init(ZeroProperties, typ, "f", tag,
         <<[Index |-> 0, protobuf_key |-> <<>>, protobuf_val |-> <<>>]>>, propertiesMap)

\* A field [N]T and a field []T with the same tag, holding the same elements,
\* each compiled and encoded into a new Buffer.
EncodeRepeated(g) ==
    /\ pc[g] = "input"
    /\ call[g].op = "repeated"
    /\ LET a == call[g].pb
           tag == <<a.wire, "11">>
           pa == FieldProperties(ArrayOf(Len(a.val), Scalar(a.kind)), tag).p
           ps == FieldProperties(SliceOf(Scalar(a.kind)), tag).p
       IN  result' = [result EXCEPT ![g] =
               [array |-> CallEnc(NewBuffer, pa, <<a.val>>),
                slice |-> CallEnc(NewBuffer, ps, <<a.val>>)]]
    /\ pc' = [pc EXCEPT ![g] = "done"]
    /\ UNCHANGED <<propertiesMap, heap, mu, call, stack, sprop, returned, ncalls>>

\* What the buffer may hold when a field encoder is called: nothing, bytes
\* that look like a reserved length, a field written before.
Priors == {<<>>, <<0, 0, 0, 0>>, <<10, 200, 1>>}

\* The Buffer holding the bytes old.
BufferOf(old) == [NewBuffer EXCEPT !.buf = old]

\* A long buffer is held as runs of equal bytes: [v |-> the byte, n |-> how
\* many of it in a row].  Its length, its first k bytes, what follows them,
\* the n bytes from index a (0-based) on, and the runs of a byte sequence.
RECURSIVE RunLen(_)
RunLen(rs) == IF rs = <<>> THEN 0 ELSE Head(rs).n + RunLen(Tail(rs))

RECURSIVE RunTake(_, _)
RunTake(rs, k) ==
    IF k <= 0 \/ rs = <<>> THEN <<>>
    ELSE IF Head(rs).n <= k THEN <<Head(rs)>> \o RunTake(Tail(rs), k - Head(rs).n)
    ELSE <<[v |-> Head(rs).v, n |-> k]>>

RECURSIVE RunDrop(_, _)
RunDrop(rs, k) ==
    IF k <= 0 \/ rs = <<>> THEN rs
    ELSE IF Head(rs).n <= k THEN RunDrop(Tail(rs), k - Head(rs).n)
    ELSE <<[v |-> Head(rs).v, n |-> Head(rs).n - k]>> \o Tail(rs)

RunSub(rs, a, n) == RunTake(RunDrop(rs, a), n)

RunsOf(bytes) == [i \in 1..Len(bytes) |-> [v |-> bytes[i], n |-> 1]]

\* copy(rs[dst:], rs[src:src+n])
RunCopy(rs, dst, src, n) == RunTake(rs, dst) \o RunSub(rs, src, n) \o RunDrop(rs, dst + n)

\* enc_len_thing that never moves the message right.
enc_len_thing_runs_noright(buf, body) ==
    LET iLen == RunLen(buf)
        b1 == buf \o <<[v |-> 0, n |-> 4]>>
        iMsg == RunLen(b1)
        b2 == b1 \o body
        lMsg == RunLen(b2) - iMsg
        lLen == SizeVarint(FromNat(lMsg))
        x == lLen - (iMsg - iLen)
        b3 == IF x > 0 THEN b2 \o <<[v |-> 0, n |-> x]>>
              ELSE IF x < 0 THEN RunTake(RunCopy(b2, iMsg + x, iMsg, lMsg), RunLen(b2) + x)
              ELSE b2
        length == EncodeVarint(<<>>, FromNat(lMsg))
    IN  (RunTake(b3, iLen) \o RunsOf(length)) \o RunSub(b3, iLen + Len(length), lMsg)

\* enc_len_thing on a buffer held as runs, enc() appending the runs of body:
\* four bytes are reserved, the message is moved right or left by the
\* difference to the size of its length, and the length is laid down.
enc_len_thing_runs(buf, body) ==
    LET iLen == RunLen(buf)
        b1 == buf \o <<[v |-> 0, n |-> 4]>>
        iMsg == RunLen(b1)
        b2 == b1 \o body
        lMsg == RunLen(b2) - iMsg
        lLen == SizeVarint(FromNat(lMsg))
        x == lLen - (iMsg - iLen)
        b3 == IF x > 0 THEN RunCopy(b2 \o <<[v |-> 0, n |-> x]>>, iMsg + x, iMsg, lMsg)
              ELSE IF x < 0 THEN RunTake(RunCopy(b2, iMsg + x, iMsg, lMsg), RunLen(b2) + x)
              ELSE b2
        length == EncodeVarint(<<>>, FromNat(lMsg))
    IN  (RunTake(b3, iLen) \o RunsOf(length)) \o RunSub(b3, iLen + Len(length), lMsg)

\* The lengths of the bodies drawn: either side of each size of the length
\* (1, 2, 3 bytes: shorter than the four reserved; 4: as long; 5: longer).
BodyLens == {0, 1, 2, 127, 128, 16383, 16384, 2097151, 2097152, 268435455, 268435456}

\* A body of l bytes: a 1, then 2s, then a 3.
BodyOf(l) ==
    IF l = 0 THEN <<>>
    ELSE IF l = 1 THEN <<[v |-> 1, n |-> 1]>>
    ELSE IF l = 2 THEN <<[v |-> 1, n |-> 1], [v |-> 3, n |-> 1]>>
    ELSE <<[v |-> 1, n |-> 1], [v |-> 2, n |-> l - 2], [v |-> 3, n |-> 1]>>

\* The bytes the runs stand for.
RECURSIVE Expand(_)
Expand(rs) ==
    IF rs = <<>> THEN <<>> ELSE [i \in 1..Head(rs).n |-> Head(rs).v] \o Expand(Tail(rs))

\* The longest body that is also written out byte by byte.
MaxBody == 128

\* enc_len_thing called on a buffer holding old, enc() appending a body of l
\* bytes: on runs and, for a short body, on the bytes themselves.
EncodeLenThing(g) ==
    /\ pc[g] = "input"
    /\ call[g].op = "enc_len_thing"
    /\ LET a == call[g].pb
       IN  result' = [result EXCEPT ![g] =
               [runs |-> enc_len_thing_runs(RunsOf(a.old), BodyOf(a.l)),
                o |-> IF a.l <= MaxBody
                      THEN enc_len_thing(BufferOf(a.old),
                               LAMBDA b : [b EXCEPT !.buf = @ \o Expand(BodyOf(a.l))])
                      ELSE NewBuffer]]
    /\ pc' = [pc EXCEPT ![g] = "done"]
    /\ UNCHANGED <<propertiesMap, heap, mu, call, stack, sprop, returned, ncalls>>

\* The numbers of bytes the AppendProtobuf3 drawn appends (a length of one,
\* two and three bytes), and the bytes themselves.
AppendLens == {0, 1, 127, 128, 129, 16384}

Payload(n) == [i \in 1..n |-> (i % 200) + 1]

\* encode_appender called on a buffer holding old, for a field *A tagged
\* "bytes,1" whose AppendProtobuf3 appends n bytes.
EncodeAppender(g) ==
    /\ pc[g] = "input"
    /\ call[g].op = "encode_appender"
    /\ LET a == call[g].pb
           p == FieldProperties(PtrTo(StructT("A")), <<"bytes", "1">>).p
       IN  result' = [result EXCEPT ![g] =
               encode_appender(BufferOf(a.old), p,
                               [app |-> Payload(a.n), err |-> FALSE, short |-> FALSE], a.must)]
    /\ pc' = [pc EXCEPT ![g] = "done"]
    /\ UNCHANGED <<propertiesMap, heap, mu, call, stack, sprop, returned, ncalls>>

\* The nanosecond timestamps drawn: whole seconds and not, either side of
\* the epoch.
NSecs ==
    {0, 1, 999999999, 1000000000, 1000000001, 2000000000,
     -1, -999999999, -1000000000, -1000000001, -2000000000}

\* EncodeNSecTimestamp(ts) and EncodeTimestamp(time.Unix(0, ts)), each into a
\* new Buffer.
EncodeTimes(g) ==
    /\ pc[g] = "input"
    /\ call[g].op = "timestamp"
    /\ result' = [result EXCEPT ![g] =
           [nsec |-> EncodeNSecTimestamp(NewBuffer, call[g].pb),
            time |-> EncodeTimestamp(NewBuffer, TimeUnix(0, call[g].pb))]]
    /\ pc' = [pc EXCEPT ![g] = "done"]
    /\ UNCHANGED <<propertiesMap, heap, mu, call, stack, sprop, returned, ncalls>>

\* 2^k as a uint64.
Bit64(k) == Digits(FromBits(LAMBDA i : IF i = k THEN 1 ELSE 0))

\* The durations drawn, over the whole int64 range: either side of zero and
\* of one second, every power of two and its neighbour below, negated too
\* (2^63 is the least int64, 2^63 - 1 the greatest), and whole seconds plus
\* or minus a part of a second.
Durations ==
    {FromInt(small) : small \in {0, 1, -1, 999999999, -999999999, 1000000000, -1000000000}}
    \cup {Bit64(k) : k \in 0..63}
    \cup {Neg64(Bit64(k)) : k \in 0..63}
    \cup {Sub64(Bit64(k), FromNat(1)) : k \in 0..63}
    \cup {Neg64(Sub64(Bit64(k), FromNat(1))) : k \in 0..63}
    \cup {Add64(MulBillion(FromInt(whole)), FromInt(part)) :
            whole \in {1, -1, 2147483647, -2147483647},
            part \in {0, 1, -1, 999999999, -999999999}}

\* enc_Duration called on a buffer holding old, for a field tagged "bytes,1"
\* and the duration d.
EncodeDuration(g) ==
    /\ pc[g] = "input"
    /\ call[g].op = "duration"
    /\ LET a == call[g].pb
           p == FieldProperties(SliceOf(Scalar("uint8")), <<"bytes", "1">>).p
       IN  result' = [result EXCEPT ![g] = enc_Duration(BufferOf(a.old), p, a.d)]
    /\ pc' = [pc EXCEPT ![g] = "done"]
    /\ UNCHANGED <<propertiesMap, heap, mu, call, stack, sprop, returned, ncalls>>

\* The field types and the tag numbers the tag code is compiled for: either
\* side of each length of the code (15|16, 2047|2048), the greatest field
\* number of protobuf (2^29 - 1) and numbers above it, and numbers Parse rejects.
TagTypes == {Scalar("int32"), Scalar("string"), PtrTo(Scalar("bool"))}

TagNumbers == DOMAIN Numerals

\* A field of type typ annotated "<wire>,<tag>" is compiled.
CompileTag(g) ==
    /\ pc[g] = "input"
    /\ call[g].op = "tagcode"
    /\ LET a == call[g].pb
       IN  result' = [result EXCEPT ![g] = FieldProperties(a.typ, <<a.wire, a.tag>>)]
    /\ pc' = [pc EXCEPT ![g] = "done"]
    /\ UNCHANGED <<propertiesMap, heap, mu, call, stack, sprop, returned, ncalls>>

\* The uint64 drawn: 0, every power of two and the number below it (either
\* side of every length of a varint and of 2^7, 2^14 and 2^32, where
\* EncodeVarint changes path), and the greatest uint64.
Uint64s ==
    {Bit64(k) : k \in 0..63} \cup {Sub64(Bit64(k), FromNat(1)) : k \in 0..63}
    \cup {Not64(FromNat(0)), Add64(Bit64(32), Bit64(7)), Add64(Bit64(63), Bit64(31))}

\* EncodeVarint(x) on a buffer holding old, and SizeVarint(x).
EncodeVarints(g) ==
    /\ pc[g] = "input"
    /\ call[g].op = "varint"
    /\ LET a == call[g].pb
       IN  result' = [result EXCEPT ![g] =
               [buf |-> EncodeVarint(a.old, a.x), size |-> SizeVarint(a.x)]]
    /\ pc' = [pc EXCEPT ![g] = "done"]
    /\ UNCHANGED <<propertiesMap, heap, mu, call, stack, sprop, returned, ncalls>>

\* The kinds of optional scalar field, the wire keywords drawn for each and
\* what the pointer holds: nil (<<>>) or <<the value pointed to>>.
PtrKinds == {"bool", "int32", "uint32", "int64", "uint64", "float32", "float64", "string",
             "duration"}

PtrWires(k) ==
    IF k \in {"string", "duration"} THEN {"bytes"}
    ELSE {"varint", "zigzag32", "zigzag64", "fixed32", "fixed64"}

PtrValues(k) ==
    {<<>>} \cup
    {<<x>> : x \in IF k = "string" THEN {<<>>, <<97, 98>>}
                   ELSE IF k = "duration"
                   THEN {Digits(FromNat(0)), Digits(FromNat(1)), Digits(FromInt(-1000000001))}
                   ELSE ElemValues(k)}

\* The encoder of a field *T tagged "<wire>,1" called on a buffer holding
\* old.  A *time.Duration field is given the descriptor of a field tagged
\* "bytes,1" and enc_ptr_time_Duration.
EncodePtr(g) ==
    /\ pc[g] = "input"
    /\ call[g].op = "ptr"
    /\ LET a == call[g].pb
           p == FieldProperties(IF a.kind = "duration" THEN SliceOf(Scalar("uint8"))
                                ELSE PtrTo(Scalar(a.kind)), <<a.wire, "1">>).p
       IN  result' = [result EXCEPT ![g] =
               IF a.kind = "duration" THEN enc_ptr_time_Duration(BufferOf(a.old), p, <<a.val>>)
               ELSE CallEnc(BufferOf(a.old), p, <<a.val>>)]
    /\ pc' = [pc EXCEPT ![g] = "done"]
    /\ UNCHANGED <<propertiesMap, heap, mu, call, stack, sprop, returned, ncalls>>

InitWire ==
    /\ propertiesMap = [t \in TypeNames |-> IF t = TimeType THEN 1 ELSE 0]
    /\ heap = <<TimeProperties>>
    /\ mu = [writer |-> 0, readers |-> {}]
    /\ stack = [g \in Procs |-> <<>>]
    /\ sprop = [g \in Procs |-> 0]
    /\ result = [g \in Procs |-> NoResult]
    /\ returned = [t \in TypeNames |-> {}]
    /\ ncalls = 0
    /\ \/ \E k \in ElemKinds : \E w \in WireKeywords :
             \E xs \in SeqsUpTo(ElemValues(k), MaxLen) \ {<<>>} :
                Input("repeated", [kind |-> k, wire |-> w, val |-> xs])
       \/ \E ts \in NSecs : Input("timestamp", ts)
       \/ \E old \in Priors : \E l \in BodyLens : Input("enc_len_thing", [old |-> old, l |-> l])
       \/ \E old \in Priors : \E n \in AppendLens : \E must \in BOOLEAN :
             Input("encode_appender", [old |-> old, n |-> n, must |-> must])
       \/ \E typ \in TagTypes : \E w \in WireKeywords : \E tag \in TagNumbers :
             Input("tagcode", [typ |-> typ, wire |-> w, tag |-> tag])
       \/ \E old \in {<<>>, <<10, 200, 1>>} : \E u \in Uint64s :
             Input("varint", [old |-> old, x |-> u])
       \/ \E old \in {<<>>, <<10, 200, 1>>} : \E k \in PtrKinds : \E w \in PtrWires(k) :
             \E v \in PtrValues(k) :
                Input("ptr", [old |-> old, kind |-> k, wire |-> w, val |-> v])
       \/ \E old \in {<<>>, <<10, 200, 1>>} : \E d \in Durations :
             Input("duration", [old |-> old, d |-> d])

NextWire ==
    \/ EncodeRepeated(1)
    \/ EncodeTimes(1)
    \/ EncodeLenThing(1)
    \/ EncodeAppender(1)
    \/ EncodeDuration(1)
    \/ CompileTag(1)
    \/ EncodeVarints(1)
    \/ EncodePtr(1)

SpecWire == InitWire /\ [][NextWire]_vars

\* ------------------------------------------------------------ the decoder

\* The decoding half, which the round trip is stated with: a proto3 decoder
\* that reads the bytes field by field and fills a value of the record type
\* from the fields whose numbers the struct tags name.  Every reader returns
\* ok (the bytes were well formed) along with what it read.

\* A uint64 below 2^31, and its value.
Small(x) == x[5] < 8 /\ \A k \in 6..10 : x[k] = 0
ToNat(x) == x[1] + x[2] * 128 + x[3] * 16384 + x[4] * 2097152 + (x[5] % 8) * 268435456

\* int64(x)
ToInt(x) == IF x[10] % 2 = 1 THEN 0 - (ToNat(Not64(x)) + 1) ELSE ToNat(x)

\* int64(x>>1) ^ -int64(x&1)
Unzigzag(x) ==
    LET n == ToNat(x) IN IF n % 2 = 0 THEN n \div 2 ELSE 0 - ((n + 1) \div 2)

\* Read a varint at pos: seven bits a byte, least significant first, until a
\* byte below 0x80.
RECURSIVE DecodeVarintLoop(_, _, _, _)
DecodeVarintLoop(bs, pos, k, x) ==
    IF pos > Len(bs) \/ k > 10 THEN [ok |-> FALSE, x |-> x, next |-> Len(bs) + 1]
    ELSE LET x1 == [x EXCEPT ![k] = bs[pos] % 128]
         IN  IF bs[pos] < 128 THEN [ok |-> TRUE, x |-> x1, next |-> pos + 1]
             ELSE DecodeVarintLoop(bs, pos + 1, k + 1, x1)

DecodeVarint(bs, pos) == DecodeVarintLoop(bs, pos, 1, FromNat(0))

\* Read n bytes at pos.
DecodeBytes(bs, pos, n) ==
    IF pos + n - 1 <= Len(bs)
    THEN [ok |-> TRUE, bytes |-> SubSeq(bs, pos, pos + n - 1), next |-> pos + n]
    ELSE [ok |-> FALSE, bytes |-> <<>>, next |-> Len(bs) + 1]

\* A little-endian fixed32 or fixed64 as a signed integer.
DecodeFixed(b) ==
    LET lo == IF Len(b) >= 3 THEN b[1] + 256 * b[2] + 65536 * b[3] ELSE 0
        b4 == IF Len(b) >= 4 THEN b[4] ELSE 0
        neg == IF Len(b) = 8 THEN b[8] >= 128 ELSE b4 >= 128
    IN  lo + 16777216 * (IF neg THEN b4 - 256 ELSE b4)

\* Read one field at pos: its key (number and wire type) and its payload.
ReadField(bs, pos) ==
    LET key == DecodeVarint(bs, pos)
        n == ToNat(key.x)
        wire == n % 8
        none == [ok |-> FALSE, num |-> n \div 8, wire |-> wire, x |-> FromNat(0),
                 bytes |-> <<>>, next |-> Len(bs) + 1]
        bytes(r) == [none EXCEPT !.ok = r.ok, !.bytes = r.bytes, !.next = r.next]
    IN  IF ~key.ok \/ ~Small(key.x) THEN none
        ELSE CASE wire = WireVarint ->
                    LET v == DecodeVarint(bs, key.next)
                    IN  [none EXCEPT !.ok = v.ok, !.x = v.x, !.next = v.next]
               [] wire = WireFixed64 -> bytes(DecodeBytes(bs, key.next, 8))
               [] wire = WireFixed32 -> bytes(DecodeBytes(bs, key.next, 4))
               [] wire = WireBytes ->
                    LET l == DecodeVarint(bs, key.next)
                    IN  IF ~l.ok \/ ~Small(l.x) THEN none
                        ELSE bytes(DecodeBytes(bs, l.next, ToNat(l.x)))
               [] OTHER -> none

\* The fields of a message, in the order of the bytes.
RECURSIVE ReadFields(_, _)
ReadFields(bs, pos) ==
    IF pos > Len(bs) THEN [ok |-> TRUE, fs |-> <<>>]
    ELSE LET f == ReadField(bs, pos)
         IN  IF ~f.ok THEN [ok |-> FALSE, fs |-> <<>>]
             ELSE LET r == ReadFields(bs, f.next)
                  IN  [ok |-> r.ok, fs |-> <<f>> \o r.fs]

\* The fields numbered n.
WithNum(fs, n) == SelectSeq(fs, LAMBDA f : f.num = n)

Last(s) == s[Len(s)]

\* The scalar of Go kind k a field holds under the wire keyword w.
DecodeScalar(k, w, f) ==
    IF k = "bool" THEN f.x # FromNat(0)
    ELSE IF f.wire = WireVarint
    THEN IF w \in {"zigzag32", "zigzag64"} THEN Unzigzag(f.x) ELSE ToInt(f.x)
    ELSE DecodeFixed(f.bytes)

\* The scalars of a packed field.
RECURSIVE DecodePacked(_, _, _, _)
DecodePacked(k, w, bs, pos) ==
    IF pos > Len(bs) THEN [ok |-> TRUE, v |-> <<>>]
    ELSE LET none == [ok |-> FALSE, num |-> 0, wire |-> WireVarint, x |-> FromNat(0),
                      bytes |-> <<>>, next |-> Len(bs) + 1]
             f == IF w \in {"fixed32", "fixed64"}
                  THEN LET r == DecodeBytes(bs, pos, IF w = "fixed32" THEN 4 ELSE 8)
                       IN  [none EXCEPT !.ok = r.ok, !.wire = WireFixed32, !.bytes = r.bytes, !.next = r.next]
                  ELSE LET r == DecodeVarint(bs, pos)
                       IN  [none EXCEPT !.ok = r.ok, !.x = r.x, !.next = r.next]
         IN  IF ~f.ok THEN [ok |-> FALSE, v |-> <<>>]
             ELSE LET r == DecodePacked(k, w, bs, f.next)
                  IN  [ok |-> r.ok, v |-> <<DecodeScalar(k, w, f)>> \o r.v]

\* The zero value of a type.  That of a self-encoding struct is held, as its
\* other values are, as what its method does: it writes nothing.
RECURSIVE ZeroValue(_)
ZeroValue(typ) ==
    CASE typ.kind = "bool" -> FALSE
      [] typ.kind = "string" -> <<>>
      [] typ.kind \in {"ptr", "slice", "map"} -> <<>>
      [] typ.kind = "array" -> [k \in 1..typ.len |-> ZeroValue(Elem(typ))]
      [] typ.kind = "struct" ->
            IF typ.name = TimeType THEN ZeroTime
            ELSE IF TypeDecl[typ.name].appender
            THEN [app |-> <<>>, err |-> FALSE, short |-> FALSE]
            ELSE IF TypeDecl[typ.name].marshaler
            THEN [data |-> <<>>, err |-> FALSE]
            ELSE [k \in 1..NumField(typ.name) |-> ZeroValue(TypeDecl[typ.name].fields[k].Type)]
      [] OTHER -> 0

\* Unmarshal fills a value of struct type t from the bytes; DecodeField gives
\* the value of the field fd from the fields fs of the message: the zero
\* value when no field has its number, for a scalar the last field that has
\* it, for a repeated field every one, packed or not.  A skipped field
\* (one with no parsable tag) keeps its zero value.
RECURSIVE Unmarshal(_, _)
RECURSIVE DecodeField(_, _)

DecodeField(fd, fs) ==
    IF ~Parses(fd.protobuf) THEN [ok |-> TRUE, v |-> ZeroValue(fd.Type)]
    ELSE
    LET w == fd.protobuf[1]
        occ == WithNum(fs, Parse(ZeroProperties, fd.protobuf).p.Tag)
        typ == fd.Type
        k == typ.kind
        zero == [ok |-> TRUE, v |-> ZeroValue(typ)]
        msgs(name) == [i \in 1..Len(occ) |-> Unmarshal(occ[i].bytes, name)]
        allok(rs) == \A i \in 1..Len(rs) : rs[i].ok
    IN  CASE k = "string" -> IF occ = <<>> THEN zero ELSE [ok |-> TRUE, v |-> Last(occ).bytes]
          [] k = "struct" -> IF occ = <<>> THEN zero ELSE Unmarshal(Last(occ).bytes, typ.name)
          [] k = "ptr" ->
                IF occ = <<>> THEN zero
                ELSE IF Elem(typ).kind = "struct"
                THEN LET m == Unmarshal(Last(occ).bytes, Elem(typ).name)
                     IN  [ok |-> m.ok, v |-> <<m.v>>]
                ELSE IF Elem(typ).kind = "string" THEN [ok |-> TRUE, v |-> <<Last(occ).bytes>>]
                ELSE [ok |-> TRUE, v |-> <<DecodeScalar(Elem(typ).kind, w, Last(occ))>>]
          [] k \in {"slice", "array"} ->
                LET e == Elem(typ)
                IN  CASE e.kind = "uint8" ->
                            IF occ = <<>> THEN [ok |-> TRUE, v |-> <<>>]
                            ELSE [ok |-> TRUE, v |-> Last(occ).bytes]
                      [] e.kind = "string" ->
                            [ok |-> TRUE, v |-> [i \in 1..Len(occ) |-> occ[i].bytes]]
                      [] e.kind = "struct" ->
                            [ok |-> allok(msgs(e.name)),
                             v |-> [i \in 1..Len(occ) |-> msgs(e.name)[i].v]]
                      [] e.kind = "ptr" ->
                            [ok |-> allok(msgs(Elem(e).name)),
                             v |-> [i \in 1..Len(occ) |-> <<msgs(Elem(e).name)[i].v>>]]
                      [] OTHER ->
                            LET rs == [i \in 1..Len(occ) |->
                                          IF occ[i].wire = WireBytes
                                          THEN DecodePacked(e.kind, w, occ[i].bytes, 1)
                                          ELSE [ok |-> TRUE, v |-> <<DecodeScalar(e.kind, w, occ[i])>>]]
                                RECURSIVE all(_)
                                all(i) == IF i > Len(rs) THEN <<>> ELSE rs[i].v \o all(i + 1)
                            IN  [ok |-> allok(rs), v |-> all(1)]
          [] k = "map" ->
                LET es == [i \in 1..Len(occ) |-> ReadFields(occ[i].bytes, 1)]
                    ks == [i \in 1..Len(occ) |->
                              DecodeField(Field("Key", typ.key[1], fd.protobuf_key), es[i].fs)]
                    vs == [i \in 1..Len(occ) |->
                              DecodeField(Field("Value", Elem(typ), fd.protobuf_val), es[i].fs)]
                IN  [ok |-> allok(es) /\ allok(ks) /\ allok(vs),
                     v |-> [i \in 1..Len(occ) |-> <<ks[i].v, vs[i].v>>]]
          [] OTHER -> IF occ = <<>> THEN zero
                      ELSE [ok |-> TRUE, v |-> DecodeScalar(k, w, Last(occ))]

Unmarshal(bs, t) ==
    LET r == ReadFields(bs, 1)
    IN  IF t = TimeType
        THEN LET secs == WithNum(r.fs, 1)
                 nanos == WithNum(r.fs, 2)
             IN  [ok |-> r.ok,
                  v |-> <<[unix |-> IF secs = <<>> THEN FromNat(0) ELSE Last(secs).x,
                           nsec |-> IF nanos = <<>> THEN 0 ELSE ToInt(Last(nanos).x)]>>]
        ELSE LET ds == [k \in 1..NumField(t) |-> DecodeField(TypeDecl[t].fields[k], r.fs)]
             IN  [ok |-> r.ok /\ \A k \in 1..NumField(t) : ds[k].ok,
                  v |-> [k \in 1..NumField(t) |-> ds[k].v]]

\* ------------------------------------------------------------ claims

\* The type holds, in itself or in a struct it holds by value, a fixed-size
\* array that is not empty, a time.Time, or a self-encoding struct.
RECURSIVE HoldsArrayOrTime(_)
HoldsArrayOrTime(typ) ==
    CASE typ.kind = "array" -> typ.len # 0
      [] typ.kind = "struct" ->
            \/ typ.name = TimeType
            \/ /\ typ.name # TimeType
               /\ \/ TypeDecl[typ.name].marshaler
                  \/ TypeDecl[typ.name].appender
                  \/ \E k \in 1..NumField(typ.name) :
                        /\ Parses(TypeDecl[typ.name].fields[k].protobuf)
                        /\ HoldsArrayOrTime(TypeDecl[typ.name].fields[k].Type)
      [] OTHER -> FALSE

\* Goroutine g has called Marshal with a pointer to a value of a struct type
\* that does not marshal itself, and Marshal has returned.
Marshalled(g) == pc[g] = "done" /\ call[g].op = "Marshal" /\ call[g].t # ""

\* The value goroutine g's Marshal was called with a pointer to.
Value(g) == call[g].pb.val[1]

\* The bytes one field contributes when it is encoded by itself.
FieldBytes(p, base) == CallEnc(NewBuffer, p, base).buf

\* The concatenation of the sequences bs[i..].
RECURSIVE Concat(_, _)
Concat(bs, i) == IF i > Len(bs) THEN <<>> ELSE bs[i] \o Concat(bs, i + 1)

\* C1 (as the spec states it): Marshal of a record whose every field holds
\* its zero value returns zero bytes and no error, for any schema.
C1_ZeroValue_AnySchema ==
    \A g \in Procs :
        (Marshalled(g) /\ Value(g) = ZeroValue(StructT(call[g].t)))
            => (result[g].bytes = <<>> /\ result[g].err = "nil")

\* C1 (amended): Marshal of a record whose every field holds its zero value
\* returns zero bytes and no error, for every schema that holds no fixed-size
\* array of one or more elements, no timestamp and no self-encoding record by
\* value, in itself or in a record it holds by value.
C1_ZeroValue ==
    \A g \in Procs :
        (Marshalled(g) /\ Value(g) = ZeroValue(StructT(call[g].t))
            /\ ~HoldsArrayOrTime(StructT(call[g].t)))
            => (result[g].bytes = <<>> /\ result[g].err = "nil" /\ result[g].buf = <<>>)

\* A record that nests a record by value and holds only zero values was
\* marshalled to no bytes.
C1_Witness ==
    /\ Marshalled(1)
    /\ call[1].t = "NestedMsg"
    /\ Value(1) = <<FALSE, <<0>>, <<>> >>
    /\ result[1].bytes = <<>>
    /\ result[1].err = "nil"

\* The indexes (from 0) of the fields a schema retains.
Retained(sp) == {sp.order[k] : k \in 1..Len(sp.order)}

\* The retained fields of a schema by ascending tag: the field of the least
\* tag, then the others.
RECURSIVE ByTag(_, _)
ByTag(sp, fields) ==
    IF fields = {} THEN <<>>
    ELSE LET least == CHOOSE i \in fields : \A k \in fields : sp.Prop[i + 1].Tag <= sp.Prop[k + 1].Tag
         IN  <<least>> \o ByTag(sp, fields \ {least})

\* C2: in every compiled schema the encode order is strictly ascending by
\* tag, and what enc_struct wrote is the bytes of the fields one after the
\* other in ascending tag order, whatever the order of their declaration.
C2_TagOrder ==
    /\ \A a \in 1..Len(heap) :
          heap[a].done =>
              \A k \in 1..(Len(heap[a].order) - 1) :
                  heap[a].Prop[heap[a].order[k] + 1].Tag < heap[a].Prop[heap[a].order[k + 1] + 1].Tag
    /\ \A g \in Procs :
          Marshalled(g) =>
              LET sp == heap[sprop[g]]
                  fs == ByTag(sp, Retained(sp))
              IN  result[g].buf =
                      Concat([k \in 1..Len(fs) |-> FieldBytes(sp.Prop[fs[k] + 1], Value(g))], 1)

\* A record whose fields are declared with the tags 9, 2 and 5 was marshalled:
\* the bytes of tag 2, then of tag 5, then of tag 9.
C2_Witness ==
    /\ Marshalled(1)
    /\ call[1].t = "Msg"
    /\ Value(1) = << <<97>>, TRUE, 7, 5>>
    /\ result[1].bytes = <<16, 1, 40, 5, 74, 1, 97>>

\* C3: whenever Marshal returns an error it returns no bytes at all, whatever
\* was written to the Buffer before the error; without an error it returns
\* the Buffer's bytes.
C3_AllOrNothing ==
    \A g \in Procs :
        (pc[g] = "done" /\ call[g].op = "Marshal") =>
            /\ result[g].err # "nil" => result[g].bytes = <<>>
            /\ result[g].err = "nil" => result[g].bytes = result[g].buf

\* Marshal returned an error and no bytes after bytes had been written to
\* the Buffer.
C3_Witness ==
    /\ pc[1] = "done"
    /\ call[1].op = "Marshal"
    /\ result[1].err = errRepeatedHasNil
    /\ result[1].buf # <<>>
    /\ result[1].bytes = <<>>

\* The descriptors of the schema goroutine g's Marshal encoded with, in encode order.
Props(g) == props(heap[sprop[g]])

\* The field is a sequence or an array of record references.
IsPtrStructs(p) == p.enc \in {"enc_slice_ptr_struct_message", "enc_array_ptr_struct_message"}

HasNil(s) == \E i \in 1..Len(s) : s[i] = <<>>

\* The index of the first nil element.
FirstNil(s) == CHOOSE i \in 1..Len(s) : s[i] = <<>> /\ \A k \in 1..(i - 1) : s[k] # <<>>

\* The self-encoder of an element before the first nil fails.
FailsBefore(p, s) ==
    \E i \in 1..(FirstNil(s) - 1) :
        \/ p.isAppender /\ (s[i][1].err \/ s[i][1].short)
        \/ ~p.isAppender /\ p.isMarshaler /\ s[i][1].err

C5_NilInput ==
    \A g \in Procs :
        (pc[g] \in {"done", "panicked"} /\ call[g].op = "Marshal") =>
            /\ (call[g].pb.kind = "nil" \/ (call[g].pb.kind = "ptr" /\ call[g].pb.val = <<>>))
                  => /\ pc[g] = "done"
                     /\ result[g].err = ErrNil
                     /\ result[g].bytes = <<>>
                     /\ Len(heap) = 1
            /\ call[g].pb.kind = "value"
                  => /\ result[g].err = ErrNotPointerToStruct
                     /\ result[g].bytes = <<>>
                     /\ Len(heap) = 1

\* The body of the nested record the field holds or points to.
Body(p, v) == enc_struct(NewBuffer, p.sprop, v).buf

\* A length-delimited field: the tag code, the length of the body, the body.
LenDelimited(p, body) == EncodeVarint(p.tagcode, FromNat(Len(body))) \o body

\* C6 (as the spec states it): a nested record field held by a non-nil
\* reference to an all-zero record emits the tag and a single length byte 0.
C6_ZeroRecordByReference ==
    \A g \in Procs :
        Marshalled(g) =>
            \A k \in 1..Len(Props(g)) :
                LET p == Props(g)[k]
                IN  (p.enc = "enc_ptr_struct_message" /\ At(p, Value(g)) # <<>>
                     /\ At(p, Value(g))[1] = ZeroValue(StructT(p.stype)))
                        => FieldBytes(p, Value(g)) = p.tagcode \o <<0>>

\* What C6 (amended) has a field contribute.
NestedBytes(p, base) ==
    CASE p.enc = "enc_struct_message" ->
            IF Body(p, At(p, base)) = <<>> THEN <<>>
            ELSE LenDelimited(p, Body(p, At(p, base)))
      [] p.enc = "enc_ptr_struct_message" ->
            IF At(p, base) = <<>> THEN <<>>
            ELSE IF Body(p, At(p, base)[1]) = <<>> THEN p.tagcode \o <<0>>
            ELSE LenDelimited(p, Body(p, At(p, base)[1]))
      [] OTHER -> FieldBytes(p, base)

\* C6 (amended): a nested record field held by value whose body encodes to
\* zero bytes adds nothing to the buffer; one held by a non-nil reference to
\* a record whose body encodes to zero bytes adds the tag and a single length
\* byte 0; a nil reference adds nothing; any other nested record adds the
\* tag, the length of the body and the body.
C6_Nested ==
    \A g \in Procs :
        Marshalled(g) =>
            result[g].buf = Concat([k \in 1..Len(Props(g)) |-> NestedBytes(Props(g)[k], Value(g))], 1)

\* A record with an all-zero record by value and another by reference was
\* marshalled: the tag of the reference and a length byte 0, nothing else.
C6_Witness ==
    /\ Marshalled(1)
    /\ call[1].t = "NestedMsg"
    /\ Value(1) = <<FALSE, <<0>>, << <<0>> >> >>
    /\ result[1].bytes = <<18, 0>>

\* The field is a packed sequence of integers.
IsPackedInts(p) ==
    p.enc \in {"enc_slice_packed_int32", "enc_slice_packed_int64", "enc_slice_packed_uint32"}

\* The encoding of one element by itself.
ElemBytes(p, x) == valEnc(NewBuffer, p, FromInt(x)).buf

RECURSIVE SumLen(_, _)
SumLen(bs, i) == IF i > Len(bs) THEN 0 ELSE Len(bs[i]) + SumLen(bs, i + 1)

\* What C7 has a packed sequence s contribute.
PackedBytes(p, s) ==
    LET elems == [i \in 1..Len(s) |-> ElemBytes(p, s[i])]
    IN  IF Len(s) = 0 THEN <<>>
        ELSE EncodeVarint(p.tagcode, FromNat(SumLen(elems, 1))) \o Concat(elems, 1)

\* C7: a packed sequence of integers that is not empty is written as one tag
\* code, the sum of the encoded sizes of its elements as a varint, and the
\* encodings of the elements in index order; an empty or nil sequence writes
\* nothing.  [1, 300, 3] as varints gives the length 4 and 4 bytes.
C7_Packed ==
    \A g \in Procs :
        Marshalled(g) =>
            /\ result[g].buf =
                   Concat([k \in 1..Len(Props(g)) |->
                       IF IsPackedInts(Props(g)[k])
                       THEN PackedBytes(Props(g)[k], At(Props(g)[k], Value(g)))
                       ELSE FieldBytes(Props(g)[k], Value(g))], 1)
            /\ (call[g].t = "PackedMsg" /\ Value(g) = <<FALSE, <<1, 300, 3>> >>)
                  => result[g].bytes = <<170, 1, 4, 1, 172, 2, 3>>

\* The sequence [1, 300, 3] was marshalled after another field.
C7_Witness ==
    /\ Marshalled(1)
    /\ call[1].t = "PackedMsg"
    /\ Value(1) = <<TRUE, <<1, 300, 3>> >>
    /\ result[1].bytes = <<8, 1, 170, 1, 4, 1, 172, 2, 3>>

\* Two retained fields of the struct type carry the same tag number.
HasDuplicateTag(t) ==
    \E i, k \in 1..NumField(t) :
        /\ i # k
        /\ Parses(TypeDecl[t].fields[i].protobuf)
        /\ Parses(TypeDecl[t].fields[k].protobuf)
        /\ TypeDecl[t].fields[i].protobuf[2] = TypeDecl[t].fields[k].protobuf[2]

\* C8: a record type two retained fields of which carry the same tag is
\* never compiled to the end: its schema is never complete, GetProperties
\* never returns it, and no goroutine comes to encode a value of that type.
C8_DuplicateTag ==
    \A t \in DeclaredTypes :
        HasDuplicateTag(t) =>
            /\ returned[t] = {}
            /\ \A a \in 1..Len(heap) : heap[a].t = t => ~heap[a].done
            /\ \A g \in Procs : call[g].t = t => pc[g] \notin {"encode", "done"}

\* A goroutine that called Marshal with a value of a type with a duplicate
\* tag panicked in the compilation.
C8_Witness ==
    \E g \in Procs :
        /\ pc[g] = "panicked"
        /\ call[g].op = "Marshal"
        /\ call[g].t = "DupMsg"
        /\ propertiesMap["DupMsg"] # 0

\* C9: the fields of each record type are compiled once (there is one
\* StructProperties per type), the cache holds that one from the moment its
\* compilation began (no entry is evicted or replaced), and every
\* GetProperties call for the type has returned it.
C9_Memoized ==
    /\ \A a \in 1..Len(heap) : propertiesMap[heap[a].t] = a
    /\ \A t \in TypeNames : returned[t] \subseteq ({propertiesMap[t]} \ {0})

\* Two goroutines called GetProperties for the same type and got the same schema.
C9_Witness ==
    /\ pc[1] = "done"
    /\ pc[2] = "done"
    /\ call[1].op = "GetProperties"
    /\ call[2].op = "GetProperties"
    /\ call[1].t = "NestedMsg"
    /\ call[2].t = "NestedMsg"
    /\ sprop[1] = sprop[2]
    /\ sprop[1] # 0

\* C10: every schema GetProperties has returned is complete, with the
\* schemas of the records nested in it, and from then on it never changes.
C10_Immutable ==
    /\ [](\A t \in TypeNames : \A a \in returned[t] :
              /\ heap[a].done
              /\ \A k \in 1..Len(heap[a].Prop) :
                    heap[a].Prop[k].sprop # 0 => heap[heap[a].Prop[k].sprop].done)
    /\ [][\A t \in TypeNames : \A a \in returned[t] : heap'[a] = heap[a]]_vars

\* A goroutine is about to look a type up while another is compiling it:
\* the placeholder is in the map.
C10_Witness ==
    \E g, h \in Procs :
        /\ pc[g] = "compile"
        /\ pc[h] = "RLock"
        /\ propertiesMap[call[h].t] # 0
        /\ ~heap[propertiesMap[call[h].t]].done

\* The schemas reachable from those of S through the nested-schema references.
RECURSIVE Reach(_)
Reach(S) ==
    LET N == S \cup UNION {{heap[a].Prop[k].sprop : k \in 1..Len(heap[a].Prop)} \ {0} : a \in S}
    IN  IF N = S THEN S ELSE Reach(N)

\* getPropertiesLocked has returned to GetProperties in goroutine g.
Compiled(g) == pc[g] \in {"Unlock", "encode", "done"} /\ sprop[g] # 0

\* The sum of what the calls of getPropertiesLocked on the stack of goroutine
\* g have left to do: for each, its return and the fields it has not reached.
RECURSIVE Pending(_, _)
Pending(st, i) ==
    IF i > Len(st) THEN 0 ELSE (NumField(st[i].t) - st[i].i) + 1 + Pending(st, i + 1)

\* A bound on the steps the compilation in goroutine g has left: each type
\* the map does not hold yet costs at most its entry, its fields and its return.
Rank(g) ==
    Cardinality({t \in DeclaredTypes : propertiesMap[t] = 0}) * 6 + Pending(stack[g], 1)

\* C11: compiling a record type that refers to itself, directly or through
\* a chain of nested record types, terminates: no type is entered twice in
\* one compilation and every step of it lowers a bound on the steps left; a field's nested-schema reference is the schema the map
\* holds for the field's type (the placeholder while that type is being
\* compiled), and when the compilation has returned every schema reachable
\* from the one returned is fully populated, a back-referring field holding
\* the enclosing type's own schema.
C11_Recursive ==
    /\ [](\A g \in Procs : \A i, k \in 1..Len(stack[g]) : i # k => stack[g][i].t # stack[g][k].t)
    /\ [](\A a \in 1..Len(heap) : \A k \in 1..Len(heap[a].Prop) :
              LET p == heap[a].Prop[k]
              IN  /\ p.sprop # 0 => p.sprop = propertiesMap[p.stype]
                  /\ (p.sprop # 0 /\ p.stype = heap[a].t) => p.sprop = a)
    /\ [](\A g \in Procs : Compiled(g) =>
              \A a \in Reach({sprop[g]}) :
                  /\ heap[a].done
                  /\ \A k \in 1..Len(heap[a].Prop) :
                        heap[a].t # TimeType /\ NestedType(TypeDecl[heap[a].t].fields[k]) # ""
                            => heap[a].Prop[k].sprop = propertiesMap[NestedType(TypeDecl[heap[a].t].fields[k])])
    /\ [][\A g \in Procs : (pc[g] = "compile" /\ stack'[g] # stack[g]) => Rank(g)' < Rank(g)]_vars

\* A record of a type that refers to itself through another type was
\* marshalled with a schema that is reachable from itself.
C11_Witness ==
    /\ Marshalled(1)
    /\ call[1].t = "ChainA"
    /\ LET a == sprop[1]
           b == heap[a].Prop[2].sprop
       IN  /\ b # 0 /\ b # a
           /\ heap[b].Prop[1].sprop = a
    /\ Value(1) = <<FALSE, << << << << <<TRUE, <<>> >> >> >> >> >> >>
    /\ result[1].bytes = <<10, 4, 10, 2, 16, 1>>

\* The schema at address a and those it reaches use only fully supported
\* shapes: every field is skipped or retained with an encoder, and no type
\* encodes itself.
FullySupported(a) ==
    \A b \in Reach({a}) :
        \/ heap[b].t = TimeType
        \/ /\ ~TypeDecl[heap[b].t].marshaler
           /\ ~TypeDecl[heap[b].t].appender
           /\ \A k \in 1..Len(heap[b].Prop) :
                 LET fd == TypeDecl[heap[b].t].fields[k]
                     p == heap[b].Prop[k]
                 IN  \/ fd.protobuf = <<"-">>
                     \/ /\ Parses(fd.protobuf)
                        /\ p.enc # "nil"
                        /\ ~p.isMarshaler /\ ~p.isAppender
                        /\ p.mkeyprop # <<>> => (p.mkeyprop[1].enc # "nil" /\ p.mvalprop[1].enc # "nil")

\* The value v of type typ with its skipped fields set to their zero value.
RECURSIVE Normal(_, _)
Normal(v, typ) ==
    CASE typ.kind = "struct" /\ typ.name # TimeType ->
            [k \in 1..NumField(typ.name) |->
                LET fd == TypeDecl[typ.name].fields[k]
                IN  IF Parses(fd.protobuf) THEN Normal(v[k], fd.Type) ELSE ZeroValue(fd.Type)]
      [] typ.kind = "ptr" /\ Elem(typ).kind = "struct" ->
            IF v = <<>> THEN v ELSE <<Normal(v[1], Elem(typ))>>
      [] typ.kind \in {"slice", "array"} /\ Elem(typ).kind \in {"struct", "ptr"} ->
            [i \in 1..Len(v) |-> Normal(v[i], Elem(typ))]
      [] OTHER -> v

\* C12: when Marshal succeeds on a value of a record type that uses only
\* fully supported shapes, decoding the bytes it returned yields the value,
\* field for field (a skipped field is not part of the encoding: it decodes
\* to its zero value).
C12_RoundTrip ==
    \A g \in Procs :
        (Marshalled(g) /\ result[g].err = "nil" /\ FullySupported(sprop[g])) =>
            LET d == Unmarshal(result[g].bytes, call[g].t)
            IN  d.ok /\ d.v = Normal(Value(g), StructT(call[g].t))

\* A record with a sequence of records, the second of them all zero, was
\* marshalled and decodes to itself.
C12_Witness ==
    /\ Marshalled(1)
    /\ call[1].t = "RepMsg"
    /\ Value(1) = << << << <<1>> >>, << <<0>> >> >>, TRUE>>
    /\ result[1].bytes = <<26, 2, 16, 1, 26, 0, 32, 1>>
    /\ Unmarshal(result[1].bytes, "RepMsg").v = Value(1)

\* The call of goroutine 1 on the encoders directly, once it is over.
Called(op) == pc[1] = "done" /\ call[1].op = op

\* C13 A non-empty fixed-size array of scalars encodes to the same bytes as a
\* slice holding the same elements under the same annotation, whatever the
\* element kind (bool, the 32 and 64-bit integers, the floats, bytes) and the
\* wire keyword.
C13_ArrayAsSlice ==
    Called("repeated") => result[1].array = result[1].slice

\* The same, for every element kind but bytes and for bytes under "bytes".
C13_ArrayAsSliceButBytes ==
    (Called("repeated") /\ (call[1].pb.kind # "uint8" \/ call[1].pb.wire = "bytes"))
        => result[1].array = result[1].slice

\* A [1]byte and a []byte holding one zero byte, both tagged "varint,11": the
\* array's tag code carries wire type 0, the slice's wire type 2.
C13_Witness ==
    /\ Called("repeated")
    /\ call[1].pb = [kind |-> "uint8", wire |-> "varint", val |-> <<0>>]
    /\ result[1].array.buf = <<88, 1, 0>>
    /\ result[1].slice.buf = <<90, 1, 0>>

\* The struct type has a field with no `protobuf` tag at all.
HasUntagged(t) == \E k \in 1..NumField(t) : TypeDecl[t].fields[k].protobuf = <<>>

\* C14 Compiling a record type that has a field with no annotation (and not
\* marked skip) is an error reported to the caller of the compiler: Marshal
\* of a value of such a type, which compiles it, returns an error.
C14_MissingTagReported ==
    \A g \in Procs :
        (Marshalled(g) /\ HasUntagged(call[g].t)) => result[g].err # "nil"

\* Marshal of &NoTagMsg{n: 5, u: 7} has compiled NoTagMsg and returned: the
\* schema retains only n, and u is not in the bytes.
C14_Witness ==
    /\ Marshalled(1)
    /\ call[1].t = "NoTagMsg"
    /\ Value(1) = <<5, 7>>
    /\ heap[sprop[1]].done
    /\ heap[sprop[1]].order = <<0>>
    /\ result[1].err = "nil"
    /\ result[1].bytes = <<40, 5>>

\* C15 EncodeNSecTimestamp(ts) appends the same bytes as EncodeTimestamp does
\* for the time.Time of the same instant, negative ts with a fraction of a
\* second included.
C15_NSecAsTime ==
    Called("timestamp") => result[1].nsec = result[1].time

\* The same, for the instants at or after the epoch and the whole seconds
\* before it.
C15_NSecAsTimeWhole ==
    (Called("timestamp") /\ (call[1].pb >= 0 \/ call[1].pb % 1000000000 = 0))
        => result[1].nsec = result[1].time

\* One nanosecond before the epoch: EncodeNSecTimestamp writes seconds 0 and
\* nanos -1, EncodeTimestamp seconds -1 and nanos 999999999.
C15_Witness ==
    /\ Called("timestamp")
    /\ call[1].pb = -1
    /\ result[1].nsec.buf = <<8, 0, 16, 255, 255, 255, 255, 255, 255, 255, 255, 255, 1>>
    /\ result[1].time.buf = <<8, 255, 255, 255, 255, 255, 255, 255, 255, 255, 1,
                              16, 255, 147, 235, 220, 3>>

\* a is a prefix of b.
IsPrefix(a, b) == Len(a) <= Len(b) /\ SubSeq(b, 1, Len(a)) = a

\* C16 Every field encoder leaves the bytes that were in the buffer before it
\* was called unchanged and in place: whatever the buffer held, it is a
\* prefix of what the buffer holds afterwards.  Checked for every field of
\* every schema (the nested ones are compiled and encoded as arguments of
\* Marshal too) on the drawn value, over each of the prior contents.
C16_PrefixKept ==
    \A g \in Procs :
        (pc[g] = "encode") =>
            \A k \in 1..Len(Props(g)) : \A old \in Priors :
                IsPrefix(old, CallEnc(BufferOf(old), Props(g)[k], Value(g)).buf)

\* NestedMsg{b: true, second: {0}, first: &{1}} is about to be encoded: on a
\* buffer holding three bytes the field second (tag 3) takes back its tag
\* and length and leaves the three bytes, and the field first (tag 2) moves
\* its body left over the reserved bytes and leaves them followed by 12 02 10 01.
C16_Witness ==
    /\ pc[1] = "encode"
    /\ call[1].t = "NestedMsg"
    /\ Value(1) = <<TRUE, <<0>>, << <<1>> >> >>
    /\ CallEnc(BufferOf(<<10, 200, 1>>), Props(1)[3], Value(1)).buf = <<10, 200, 1>>
    /\ CallEnc(BufferOf(<<10, 200, 1>>), Props(1)[2], Value(1)).buf = <<10, 200, 1, 18, 2, 16, 1>>

\* Runs with the neighbours of equal bytes joined: one form for each content.
RECURSIVE Norm(_)
Norm(rs) ==
    IF Len(rs) < 2 THEN rs
    ELSE LET t == Norm(Tail(rs))
         IN  IF Head(rs).v = Head(t).v
             THEN <<[v |-> Head(rs).v, n |-> Head(rs).n + Head(t).n]>> \o Tail(t)
             ELSE <<Head(rs)>> \o t

\* C17 After enc_len_thing the buffer holds the old content, then the varint
\* of the length L of the body, then the body unchanged and in order, whether
\* that varint is shorter than the four reserved bytes, as long, or longer;
\* an empty body leaves the old content and one byte 0.
C17_LenThing ==
    Called("enc_len_thing") =>
        LET a == call[1].pb
            length == EncodeVarint(<<>>, FromNat(a.l))
        IN  /\ Norm(result[1].runs) = Norm((RunsOf(a.old) \o RunsOf(length)) \o BodyOf(a.l))
            /\ a.l <= MaxBody =>
                  /\ result[1].o.buf = (a.old \o length) \o Expand(BodyOf(a.l))
                  /\ result[1].o.buf = Expand(result[1].runs)
            /\ a.l = 0 => Expand(result[1].runs) = a.old \o <<0>>

\* A body of 2^28 bytes after three bytes: its length takes five bytes, one
\* more than reserved, and the body follows it whole.
C17_Witness ==
    /\ Called("enc_len_thing")
    /\ call[1].pb = [old |-> <<10, 200, 1>>, l |-> 268435456]
    /\ result[1].runs =
          <<[v |-> 10, n |-> 1], [v |-> 200, n |-> 1], [v |-> 1, n |-> 1],
            [v |-> 128, n |-> 1], [v |-> 128, n |-> 1], [v |-> 128, n |-> 1],
            [v |-> 128, n |-> 1], [v |-> 1, n |-> 1],
            [v |-> 1, n |-> 1], [v |-> 2, n |-> 268435454], [v |-> 3, n |-> 1]>>

\* C18 encode_appender for a length-delimited field whose AppendProtobuf3
\* appends n bytes leaves the old content, the tag code, the varint of n and
\* the n bytes, for n below 128 and from 128 on; when n = 0 and the field is
\* not an element of a repeated field (must_encode is false) it leaves the
\* old content exactly.
C18_Appender ==
    Called("encode_appender") =>
        LET a == call[1].pb
        IN  /\ result[1].err = "nil"
            /\ result[1].o.err = "nil"
            /\ result[1].o.buf =
                  IF a.n = 0 /\ ~a.must THEN a.old
                  ELSE ((a.old \o <<10>>) \o EncodeVarint(<<>>, FromNat(a.n))) \o Payload(a.n)

\* 129 bytes appended after three: the length takes two bytes (129, 1) and
\* the payload has moved one byte right, whole.
C18_Witness ==
    /\ Called("encode_appender")
    /\ call[1].pb = [old |-> <<10, 200, 1>>, n |-> 129, must |-> FALSE]
    /\ SubSeq(result[1].o.buf, 1, 8) = <<10, 200, 1, 10, 129, 1, 2, 3>>
    /\ Len(result[1].o.buf) = 135
    /\ result[1].o.buf[135] = 130

\* The AppendProtobuf3 of the value fails: it returns an error, or a buffer
\* shorter than the one it was given.
Fails(av) == av.err \/ av.short

\* The self-appending value a field of AMsg holds: none behind a nil pointer.
AppenderAt(p, base) == IF p.enc = "enc_appender" THEN <<At(p, base)>> ELSE At(p, base)

\* C19 When AppendProtobuf3 returns an error or a buffer shorter than the one
\* it was given, encode_appender notes an error on the Buffer and returns
\* it, the Buffer keeps the bytes it held when AppendProtobuf3 was called
\* (the old content, the tag code and the reserved length byte), and Marshal
\* of a record holding such a value returns an error and no bytes.
C19_AppenderFails ==
    \A g \in Procs :
        /\ (pc[g] = "encode" /\ call[g].t = "AMsg") =>
              \A k \in 1..Len(Props(g)) : \A old \in Priors : \A must \in BOOLEAN :
                  LET p == Props(g)[k]
                      av == AppenderAt(p, Value(g))
                  IN  (av # <<>> /\ Fails(av[1])) =>
                          LET r == encode_appender(BufferOf(old), p, av[1], must)
                          IN  /\ r.err = (IF av[1].err THEN ErrAppender ELSE ErrBuggyAppender)
                              /\ r.o.err = r.err
                              /\ r.o.buf = (old \o p.tagcode) \o <<0>>
        /\ (Marshalled(g) /\ call[g].t = "AMsg"
              /\ (Fails(Value(g)[1]) \/ (Value(g)[2] # <<>> /\ Fails(Value(g)[2][1])))) =>
                 (result[g].err \in {ErrAppender, ErrBuggyAppender} /\ result[g].bytes = <<>>)
        /\ (Marshalled(g) /\ call[g].t = "RepAMsg"
              /\ \E i \in 1..Len(Value(g)[1]) :
                    Value(g)[1][i] # <<>> /\ Fails(Value(g)[1][i][1])) =>
                 (result[g].err # "nil" /\ result[g].bytes = <<>>)

\* Marshal of &AMsg{a: one that appends 08 01, pa: one that returns nil}: the
\* error of the short buffer is returned with no bytes, and the Buffer was
\* left with the first field, the tag code of the second and its reserved byte.
C19_Witness ==
    /\ Marshalled(1)
    /\ call[1].t = "AMsg"
    /\ Value(1) = <<[app |-> <<8, 1>>, err |-> FALSE, short |-> FALSE],
                    <<[app |-> <<>>, err |-> FALSE, short |-> TRUE]>> >>
    /\ result[1].err = ErrBuggyAppender
    /\ result[1].bytes = <<>>
    /\ result[1].buf = <<10, 2, 8, 1, 18, 0>>

\* The schema retains a field that setEnc found no encoder for.
HasNoEncoder(a) == \E k \in 1..Len(heap[a].order) : heap[a].Prop[heap[a].order[k] + 1].enc = "nil"

\* The bytes of the fields ps[i..] that have an encoder, each encoded by itself.
RECURSIVE OtherFields(_, _, _)
OtherFields(ps, base, i) ==
    IF i > Len(ps) THEN <<>>
    ELSE (IF ps[i].enc = "nil" THEN <<>> ELSE FieldBytes(ps[i], base)) \o OtherFields(ps, base, i + 1)

\* C20 A field whose shape has no encoder is left with no encoder function
\* when its type is compiled, which succeeds, and Marshal of a record that
\* holds such a field returns, without error, the bytes of the other fields.
C20_NoEncoderSkipped ==
    \A g \in Procs :
        (call[g].op = "Marshal" /\ sprop[g] # 0 /\ pc[g] \in {"done", "panicked"}
            /\ HasNoEncoder(sprop[g])) =>
                /\ pc[g] = "done"
                /\ result[g].err = "nil"
                /\ result[g].bytes = OtherFields(Props(g), Value(g), 1)

\* Marshal of &NoEncMsg{b: true}: the type was compiled, its field ss (a
\* [][]int32) retained with no encoder, and the call through it panicked.
C20_Witness ==
    /\ pc[1] = "panicked"
    /\ call[1].t = "NoEncMsg"
    /\ Value(1) = <<TRUE, <<>> >>
    /\ heap[sprop[1]].done
    /\ heap[sprop[1]].order = <<0, 1>>
    /\ heap[sprop[1]].Prop[2].enc = "nil"
    /\ result[1] = NoResult

\* The field is a sequence or an array of records, by value or by reference.
IsRecords(p) ==
    p.enc \in {"enc_slice_struct_message", "enc_array_struct_message",
               "enc_slice_ptr_struct_message", "enc_array_ptr_struct_message"}

\* Its elements as the field holds them, and what one element holds: the
\* record itself or, by reference, what a non-nil pointer points to.
Records(p, base) ==
    IF p.enc \in {"enc_array_struct_message", "enc_array_ptr_struct_message"}
    THEN SubSeq(At(p, base), 1, p.length) ELSE At(p, base)

ByReference(p) == p.enc \in {"enc_slice_ptr_struct_message", "enc_array_ptr_struct_message"}

\* Every element can be written: none is a nil pointer, no self-encoder fails.
AllWritable(p, s) ==
    \A i \in 1..Len(s) :
        /\ ByReference(p) => s[i] # <<>>
        /\ LET e == IF ByReference(p) THEN s[i][1] ELSE s[i]
           IN  /\ p.isAppender => ~Fails(e)
               /\ (~p.isAppender /\ p.isMarshaler) => ~e.err

\* The body of element e: what its self-encoder gives, or its fields encoded.
RecordBody(p, e) ==
    IF p.isAppender THEN e.app
    ELSE IF p.isMarshaler THEN (IF e.data = <<>> THEN <<>> ELSE e.data[1])
    ELSE Body(p, e)

\* The bodies of the elements of the field, in index order.
RecordBodies(p, base) ==
    LET s == Records(p, base)
    IN  [i \in 1..Len(s) |-> RecordBody(p, IF ByReference(p) THEN s[i][1] ELSE s[i])]

IsMap(p) == p.enc = "enc_new_map"

\* A key or a value x of type typ written out under the descriptor q: the
\* tag code and the value.
Written(q, typ, x) ==
    CASE typ.kind = "string" -> EncodeStringBytes(q.tagcode, x)
      [] typ.kind = "slice" -> EncodeRawBytes(q.tagcode, x)
      [] OTHER -> EncodeVarint(q.tagcode, FromInt(x))

\* The body of the entry of key k and value x when zero values are left out
\* (elide), and when only an empty byte sequence is.
EntryBody(p, k, x, elide) ==
    LET kt == p.mtype[1].key[1]
        vt == Elem(p.mtype[1])
    IN  (IF elide /\ k = ZeroValue(kt) THEN <<>> ELSE Written(p.mkeyprop[1], kt, k))
        \o (IF (elide \/ vt.kind = "slice") /\ x = ZeroValue(vt) THEN <<>>
            ELSE Written(p.mvalprop[1], vt, x))

IsTime(p) == p.enc = "enc_struct_message" /\ p.stype = TimeType

\* The body of a timestamp: the seconds under tag 1 and the nanoseconds under
\* tag 2, each left out when 0 if elide.
TimestampBody(ts, elide) ==
    (IF elide /\ ts.unix = FromNat(0) THEN <<>> ELSE EncodeVarint(<<8>>, ts.unix))
    \o (IF elide /\ ts.nsec = 0 THEN <<>> ELSE EncodeVarint(<<16>>, FromInt(ts.nsec)))

\* C23 (as the spec states it): a timestamp field is written as the field's
\* tag and length around the seconds (tag 1) and the nanoseconds (tag 2), the
\* seconds left out when 0 and the nanoseconds left out when 0.
C23_TimestampElided ==
    \A g \in Procs :
        Marshalled(g) =>
            \A j \in 1..Len(Props(g)) :
                LET p == Props(g)[j]
                IN  IsTime(p) =>
                        FieldBytes(p, Value(g))
                          = LenDelimited(p, TimestampBody(At(p, Value(g))[1], TRUE))

\* C23 (amended): a timestamp field is written as the field's tag and length
\* around the seconds (tag 1, varint) and then the nanoseconds (tag 2, varint),
\* both always present, also when 0.  Read back, the field holds exactly the
\* two varint fields 1 and 2 with the seconds and the nanoseconds.
C23_Timestamp ==
    \A g \in Procs :
        Marshalled(g) =>
            \A j \in 1..Len(Props(g)) :
                LET p == Props(g)[j]
                    ts == At(p, Value(g))[1]
                    bs == FieldBytes(p, Value(g))
                    f == ReadField(bs, 1)
                    es == ReadFields(f.bytes, 1)
                IN  IsTime(p) =>
                        /\ bs = LenDelimited(p, TimestampBody(ts, FALSE))
                        /\ f.ok /\ f.num = p.Tag /\ f.wire = WireBytes /\ f.next = Len(bs) + 1
                        /\ es.ok /\ Len(es.fs) = 2
                        /\ es.fs[1].num = 1 /\ es.fs[1].wire = WireVarint /\ es.fs[1].x = ts.unix
                        /\ es.fs[2].num = 2 /\ es.fs[2].wire = WireVarint
                        /\ es.fs[2].x = FromInt(ts.nsec)

\* TimeMsg{t: 1970-01-01T00:00:00Z}: seconds 0 and nanoseconds 0 are both
\* written.
C23_Witness ==
    /\ Marshalled(1)
    /\ call[1].t = "TimeMsg"
    /\ Value(1)[1][1] = [unix |-> FromNat(0), nsec |-> 0]
    /\ result[1].err = "nil"
    /\ result[1].bytes = <<10, 4, 8, 0, 16, 0>>

\* ---- durations ----

\* The varint of the field numbered n of fs, 0 when the field is absent.
VarintOf(fs, n) == IF WithNum(fs, n) = <<>> THEN FromNat(0) ELSE WithNum(fs, n)[1].x

\* |int64(x)| < 10^9
WithinSecond(x) ==
    LET m == IF Neg(x) THEN Neg64(x) ELSE x
    IN  Small(m) /\ ToNat(m) < 1000000000

\* What enc_Duration appended to the buffer after the tag code: the length
\* byte and the body.
DurationTail(g) ==
    SubSeq(result[g].buf, Len(call[g].pb.old) + 2, Len(result[g].buf))

\* C24: for every duration d of the int64 range enc_Duration writes seconds
\* and nanos with seconds * 10^9 + nanos = d, |nanos| < 10^9 and never of
\* opposite signs; the body is at most 22 bytes, so the one length byte
\* reserved holds its length.
C24_Duration ==
    Called("duration") =>
        LET a == call[1].pb
            bs == result[1].buf
            rest == DurationTail(1)
            body == Tail(rest)
            fs == ReadFields(body, 1)
            secs == VarintOf(fs.fs, 1)
            nanos == VarintOf(fs.fs, 2)
        IN  /\ SubSeq(bs, 1, Len(a.old) + 1) = a.old \o <<10>>
            /\ Len(body) <= 22
            /\ rest[1] = Len(body)
            /\ ReadField(bs, Len(a.old) + 1).ok
            /\ ReadField(bs, Len(a.old) + 1).bytes = body
            /\ fs.ok
            /\ \A i \in 1..Len(fs.fs) : fs.fs[i].num = i + (2 - Len(fs.fs)) * (IF secs = FromNat(0) THEN 1 ELSE 0)
            /\ \A i \in 1..Len(fs.fs) : fs.fs[i].wire = WireVarint
            /\ Add64(MulBillion(secs), nanos) = a.d
            /\ WithinSecond(nanos)
            /\ ~(Neg(secs) /\ ~Neg(nanos) /\ nanos # FromNat(0))
            /\ ~(Neg(nanos) /\ ~Neg(secs) /\ secs # FromNat(0))

\* -1.000000001 s: seconds -1 and nanos -1, two varints of ten bytes, a body
\* of 22 bytes.
C24_Witness ==
    /\ Called("duration")
    /\ call[1].pb = [old |-> <<>>, d |-> FromInt(-1000000001)]
    /\ result[1].buf = <<10, 22, 8, 255, 255, 255, 255, 255, 255, 255, 255, 255, 1,
                         16, 255, 255, 255, 255, 255, 255, 255, 255, 255, 1>>

\* ---- tag codes ----

\* (tag << 3) | wire, without loss.
Key(tag, wire) ==
    Digits(FromBits(LAMBDA i :
        IF i > 63 THEN 0 ELSE IF i < 3 THEN Bit(FromNat(wire), i) ELSE Bit(FromNat(tag), i - 3)))

\* The annotation was accepted: Parse returned no error and the field is kept.
Accepted(g) == Called("tagcode") /\ result[g].err = "nil" /\ ~result[g].skip

\* C25: for every tag number the parser accepts and every wire kind, the tag
\* code of the descriptor is the varint of (tag << 3) | wire for that tag
\* number and is at most 5 bytes long, and the descriptor's Tag is the number
\* of the annotation.
C25_TagCode ==
    Accepted(1) =>
        LET p == result[1].p
            n == Numerals[call[1].pb.tag]
        IN  /\ p.Tag = n
            /\ p.tagcode = EncodeVarint(<<>>, Key(n, p.WireType))
            /\ Len(p.tagcode) <= 5

\* The same, for the field numbers of protobuf (below 2^29); and for every
\* accepted number the code is at most 5 bytes and the Tag is the number.
C25_TagCodeBelow29 ==
    Accepted(1) =>
        LET p == result[1].p
            n == Numerals[call[1].pb.tag]
        IN  /\ p.Tag = n
            /\ Len(p.tagcode) <= 5
            /\ n < 536870912 =>
                  /\ p.tagcode = EncodeVarint(<<>>, Key(n, p.WireType))
                  /\ DecodeVarint(p.tagcode, 1).ok
                  /\ DecodeVarint(p.tagcode, 1).next = Len(p.tagcode) + 1
                  /\ DecodeVarint(p.tagcode, 1).x = Key(n, p.WireType)

\* The annotation "varint,536870913" (2^29 + 1) is accepted and compiled to
\* the tag code of field 1.
C25_Witness ==
    /\ Accepted(1)
    /\ call[1].pb = [typ |-> Scalar("int32"), wire |-> "varint", tag |-> "536870913"]
    /\ result[1].p.Tag = 536870913
    /\ result[1].p.tagcode = <<8>>

\* ---- varints ----

\* C26: for every uint64 x EncodeVarint appends exactly SizeVarint(x) bytes,
\* between 1 and 10, every one but the last with its high bit set and the
\* last with it clear, whose 7-bit groups, least significant first, are x;
\* what the buffer held stays in place.
C26_Varint ==
    Called("varint") =>
        LET a == call[1].pb
            n == Len(result[1].buf) - Len(a.old)
            b == SubSeq(result[1].buf, Len(a.old) + 1, Len(result[1].buf))
            d == DecodeVarint(b, 1)
        IN  /\ IsPrefix(a.old, result[1].buf)
            /\ n = result[1].size
            /\ n \in 1..10
            /\ \A i \in 1..(n - 1) : b[i] \in 128..255
            /\ b[n] \in 0..127
            /\ [k \in 1..10 |-> IF k <= n THEN b[k] % 128 ELSE 0] = a.x
            /\ d.ok /\ d.next = n + 1 /\ d.x = a.x
            /\ n = 1 <=> ~Ge128(a.x)
            /\ n <= 2 <=> Lt14(a.x)
            /\ n <= 4 => Hi32Zero(a.x)
            /\ n >= 6 => ~Hi32Zero(a.x)

\* 2^32, the first number off the 32-bit path, is written as five bytes after
\* what the buffer held.
C26_Witness ==
    /\ Called("varint")
    /\ call[1].pb = [old |-> <<10, 200, 1>>, x |-> Bit64(32)]
    /\ result[1] = [buf |-> <<10, 200, 1, 128, 128, 128, 128, 16>>, size |-> 5]

\* ---- optional scalar fields ----

\* The scalar x of kind k under the wire keyword w, as the wire holds it.
ScalarBytes(k, w, x) ==
    LET u == IF k = "bool" THEN FromNat(IF x THEN 1 ELSE 0)
             ELSE IF k \in {"int32", "int64", "uint64", "float64"} THEN FromInt(x)
             ELSE FromNat(x)
    IN  CASE k = "string" -> EncodeStringBytes(<<>>, x)
          [] w = "varint" -> EncodeVarint(<<>>, u)
          [] w = "zigzag32" -> EncodeZigzag32(<<>>, u)
          [] w = "zigzag64" -> EncodeZigzag64(<<>>, u)
          [] w = "fixed32" -> EncodeFixed32(<<>>, u)
          [] w = "fixed64" -> EncodeFixed64(<<>>, u)

\* What the encoder appended to the buffer.
Appended(g) == SubSeq(result[g].buf, Len(call[g].pb.old) + 1, Len(result[g].buf))

\* The tag code of field 1 under the keyword w.
TagOne(w) ==
    TagCode(1, CASE w = "bytes" -> WireBytes [] w = "fixed32" -> WireFixed32
                 [] w = "fixed64" -> WireFixed64 [] OTHER -> WireVarint)

\* C27 (as the spec states it): for every optional scalar field (bool,
\* integers, floats, string, duration) a nil pointer contributes no bytes and
\* a non-nil pointer contributes the tag code and the value, also when the
\* value is zero.
C27_PtrAlwaysWritten ==
    Called("ptr") =>
        LET a == call[1].pb
        IN  /\ IsPrefix(a.old, result[1].buf)
            /\ a.val = <<>> => Appended(1) = <<>>
            /\ a.val # <<>> =>
                  /\ IsPrefix(TagOne(a.wire), Appended(1))
                  /\ Len(Appended(1)) > Len(TagOne(a.wire))

\* C27 (amended): for an optional bool, integer, float or string field a nil
\* pointer contributes no bytes and a non-nil pointer contributes the tag code
\* and the value, also when the value is zero; an optional duration
\* contributes the tag code, a length and the body when the pointer is not
\* nil and the duration is not zero, and nothing otherwise.
C27_PtrScalar ==
    Called("ptr") =>
        LET a == call[1].pb
            f == ReadField(Appended(1), 1)
        IN  /\ IsPrefix(a.old, result[1].buf)
            /\ ~result[1].panic
            /\ a.val = <<>> => Appended(1) = <<>>
            /\ (a.val # <<>> /\ a.kind # "duration") =>
                  /\ Appended(1) = TagOne(a.wire) \o ScalarBytes(a.kind, a.wire, a.val[1])
                  /\ f.ok /\ f.num = 1 /\ f.next = Len(Appended(1)) + 1
            /\ (a.val # <<>> /\ a.kind = "duration") =>
                  IF a.val[1] = FromNat(0) THEN Appended(1) = <<>>
                  ELSE /\ f.ok /\ f.num = 1 /\ f.wire = WireBytes
                       /\ f.next = Len(Appended(1)) + 1
                       /\ f.bytes # <<>>

\* A pointer to the int32 0, tagged "varint,1", is written as the tag code
\* and the varint 0.
C27_Witness ==
    /\ Called("ptr")
    /\ call[1].pb = [old |-> <<>>, kind |-> "int32", wire |-> "varint", val |-> <<0>>]
    /\ result[1].buf = <<8, 0>>

\* ---- packed booleans ----

\* The length written after the one-byte tag code of the bytes bs is the
\* number of bytes that follow it.
LengthIsPayload(bs) ==
    LET l == DecodeVarint(bs, 2)
    IN  l.ok /\ Small(l.x) /\ ToNat(l.x) = Len(bs) - (l.next - 1)

\* A sequence and an array of booleans were encoded under a keyword that
\* gives them an integer encoder.
PackedBools == Called("repeated") /\ call[1].pb.kind = "bool" /\ call[1].pb.wire # "bytes"

\* C28: for a packed sequence or array of booleans the length written after
\* the tag code is the number of payload bytes that follow it, under every
\* wire keyword (varint, fixed32, fixed64, zigzag32, zigzag64).
C28_PackedBoolLength ==
    PackedBools =>
        /\ LengthIsPayload(result[1].slice.buf)
        /\ LengthIsPayload(result[1].array.buf)

\* The same under the keywords that write one byte for each boolean; under
\* every keyword the length written is the number of elements.
C28_PackedBoolCount ==
    PackedBools =>
        LET bs == result[1].slice.buf
            ba == result[1].array.buf
        IN  /\ bs[1] = 90 /\ ba[1] = 90
            /\ bs[2] = Len(call[1].pb.val) /\ ba[2] = Len(call[1].pb.val)
            /\ call[1].pb.wire \in {"varint", "zigzag32", "zigzag64"} =>
                  LengthIsPayload(bs) /\ LengthIsPayload(ba)

\* []bool{true} tagged "fixed32,11": length 1, then four bytes of payload.
C28_Witness ==
    /\ PackedBools
    /\ call[1].pb = [kind |-> "bool", wire |-> "fixed32", val |-> <<TRUE>>]
    /\ result[1].slice.buf = <<90, 1, 1, 0, 0, 0>>
    /\ result[1].array.buf = <<90, 1, 1, 0, 0, 0>>

\* ---- the lock of the schema cache ----

\* Goroutine g is between propertiesMu.Lock() and Unlock(), or between
\* RLock() and RUnlock().
InLocked(g) == pc[g] \in {"compile", "Unlock"}
InRLocked(g) == pc[g] = "RUnlock"

\* C29: GetProperties releases propertiesMu on every exit path, the abort on
\* a duplicate tag included: a goroutine that is not inside GetProperties'
\* locked sections holds neither the write lock nor a read lock, so that a
\* later call waiting for the lock is not blocked forever.
C29_LockReleased ==
    \A g \in Procs :
        /\ mu.writer = g => InLocked(g)
        /\ g \in mu.readers => InRLocked(g)

\* The same on the paths that return: the read lock is always released, and
\* the write lock is held outside the locked section only after a
\* compilation was aborted on a duplicate tag (the placeholder of the type
\* with the duplicate is in the map, its schema unfinished).
C29_LockReleasedOnReturn ==
    \A g \in Procs :
        /\ g \in mu.readers => InRLocked(g)
        /\ pc[g] \in {"encode", "done"} => mu.writer # g
        /\ (mu.writer = g /\ ~InLocked(g)) =>
              \E t \in DeclaredTypes :
                  /\ HasDuplicateTag(t)
                  /\ propertiesMap[t] # 0
                  /\ ~heap[propertiesMap[t]].done

\* A goroutine's call for DupMsg has panicked and ended with propertiesMu
\* still write-locked; another goroutine's later call waits at RLock, which
\* is never granted.
C29_Witness ==
    \E g, h \in Procs :
        /\ pc[g] \in {"panicked", "idle"}
        /\ mu.writer = g
        /\ propertiesMap["DupMsg"] # 0
        /\ pc[h] = "RLock"
        /\ ~CanRLock(h)

\* ---- the entries of the schema cache ----

\* No compilation is in progress: no goroutine is in getPropertiesLocked.
NoCompilation == \A g \in Procs : stack[g] = <<>>

\* C30: every entry of the schema cache present when no compilation is in
\* progress is a completely built schema; after an abort on a duplicate tag
\* neither the placeholder of that type nor those of the enclosing types
\* remain in the map.
C30_NoPlaceholderLeft ==
    NoCompilation =>
        \A t \in TypeNames : propertiesMap[t] # 0 => heap[propertiesMap[t]].done

\* The same for the compilations that return: an unfinished entry present
\* when no compilation is in progress is that of a type with a duplicate tag
\* or of a type whose compilation was cut short by one.
C30_PlaceholderOnlyAfterAbort ==
    NoCompilation =>
        \A t \in TypeNames :
            (propertiesMap[t] # 0 /\ ~heap[propertiesMap[t]].done) =>
                /\ \E d \in DeclaredTypes :
                      HasDuplicateTag(d) /\ propertiesMap[d] # 0 /\ ~heap[propertiesMap[d]].done
                /\ returned[t] = {}
                /\ mu.writer # 0

\* Marshal of a DupOuterMsg has panicked on the duplicate tag of the DupMsg
\* nested in it: the placeholders of both types are left in the map.
C30_Witness ==
    /\ NoCompilation
    /\ pc[1] = "panicked"
    /\ call[1].t = "DupOuterMsg"
    /\ propertiesMap["DupMsg"] # 0
    /\ ~heap[propertiesMap["DupMsg"]].done
    /\ propertiesMap["DupOuterMsg"] # 0
    /\ ~heap[propertiesMap["DupOuterMsg"]].done

====
